---- MODULE Spec2Model ----
(***************************************************************************)
(* The replay worker pool of ledger/src/replayer.rs: a ReplayerHandle      *)
(* (request sender + response receiver), num_threads workers running the   *)
(* loop of Replayer::start_replay_threads, and execute_batch with its      *)
(* block-cost and accounts-data-size checks.                               *)
(***************************************************************************)
EXTENDS Integers, Sequences, FiniteSets

(* ------------------------------ bounds --------------------------------- *)

\* Largest num_threads given to Replayer::new.
MaxThreads == 2

\* Number of requests the owner sends to the pool.
MaxRequests == 2

\* Number of direct, sequential calls of execute_batch.
MaxCalls == 3

\* Number of packets that enter the Tpu's channels.
MaxPackets == 2

\* Number of times the meter's owner resets it.
MaxResets == 1

\* Largest number of transactions of a batch handed directly to execute_batch.
MaxBatch == 2

\* Width of the u64 compute-unit arithmetic, scaled down: largest value.
U64_MAX == 255

\* Capacities the owner builds the block's meter with.
MeterCaps == {50, 100}

(* ------------------------- program constants --------------------------- *)

MAX_ACCOUNT_DATA_BLOCK_LEN == 100000000

\* Timeout interval when joining threads during TPU close.
TPU_THREADS_JOIN_TIMEOUT_SECONDS == 10

\* solana_sdk::packet::PACKET_DATA_SIZE, the fixed payload size of a Packet.
PACKET_DATA_SIZE == 1232

(* ---------------------------- data domains ----------------------------- *)

\* transaction::Result<()> values the model distinguishes.
OkResult == "Ok"

CostLimitErr == "WouldExceedMaxBlockCostLimit"

DataBlockErr == "WouldExceedAccountDataBlockLimit"

\* TransactionError::InstructionError(_, InstructionError::MaxAccountsDataSizeExceeded)
MaxDataErr == "MaxAccountsDataSizeExceeded"

\* Any other InstructionError of an executed transaction.
OtherInstrErr == "InstructionErrorOther"

\* Errors of a transaction the bank could not load (not executed, no fee).
LoadErrors == {"AccountNotFound", "BlockhashNotFound"}

\* What the bank returns for one transaction: its flattened execution result
\* and its fee-collection result.  An executed transaction has paid its fee;
\* a transaction that was not executed carries its load error in both.
TxOutcomes ==
    {[exec |-> OkResult, fee |-> OkResult],
     [exec |-> MaxDataErr, fee |-> OkResult],
     [exec |-> OtherInstrErr, fee |-> OkResult]}
    \cup {[exec |-> e, fee |-> e] : e \in LoadErrors}

\* ExecuteTimings.details.per_program_timings after an execution: one entry
\* (count, accumulated_units) per program; none when no program ran.
TimingProfiles ==
    {<<>>,
     <<[count |-> 1, accumulated_units |-> 20]>>,
     <<[count |-> 2, accumulated_units |-> 60]>>,
     <<[count |-> 1, accumulated_units |-> 60], [count |-> 0, accumulated_units |-> 7]>>,
     <<[count |-> 1, accumulated_units |-> 200], [count |-> 1, accumulated_units |-> 200]>>}

\* Values of Bank::load_accounts_data_size_delta_on_chain: the largest one
\* within the block limit and the smallest one over it.
DataDeltas == {MAX_ACCOUNT_DATA_BLOCK_LEN, MAX_ACCOUNT_DATA_BLOCK_LEN + 1}

\* The bank's feature set: the three flags execute_batch reads.
FeatureSets ==
    [gate_large_block : BOOLEAN,
     cap_accounts_data_size_per_block : BOOLEAN,
     cap_accounts_data_len : BOOLEAN]

(* ------------------------------ helpers -------------------------------- *)

Min(a, b) == IF a < b THEN a ELSE b

\* u64::saturating_add
saturating_add(a, b) == Min(a + b, U64_MAX)

\* u64::saturating_sub
saturating_sub(a, b) == IF a > b THEN a - b ELSE 0

RECURSIVE AggregateLoop(_, _, _)
\* The for loop of aggregate_total_execution_units from entry k on.
AggregateLoop(timings, k, execute_cost_units) ==
    IF k > Len(timings) THEN execute_cost_units
    ELSE IF timings[k].count < 1
         THEN AggregateLoop(timings, k + 1, execute_cost_units)
         ELSE AggregateLoop(timings, k + 1,
                  saturating_add(execute_cost_units,
                                 timings[k].accumulated_units \div timings[k].count))

aggregate_total_execution_units(execute_timings) ==
    AggregateLoop(execute_timings, 1, 0)

\* Mutant: the subtraction of line 220 with its operands swapped.
ExecutionCostUnitsSwapped(post_timings, pre_process_units) ==
    pre_process_units - aggregate_total_execution_units(post_timings)

\* execute_batch: the units charged to the meter.
ExecutionCostUnits(post_timings, pre_process_units) ==
    aggregate_total_execution_units(post_timings) - pre_process_units

\* BlockCostCapacityMeter::accumulate: the meter after the call.
accumulate(meter, cost) ==
    [meter EXCEPT !.accumulated_cost = @ + cost]

\* BlockCostCapacityMeter: the remaining capacity accumulate returns.
RemainingCap(meter) == saturating_sub(meter.capacity, meter.accumulated_cost)

\* Mutant: the cost-cap decision inverted.
CostCapExceededInverted(remaining_block_cost_cap) == remaining_block_cost_cap # 0

\* execute_batch: the cost-cap decision on the returned remaining capacity.
CostCapExceeded(remaining_block_cost_cap) == remaining_block_cost_cap = 0

RECURSIVE FirstErrorFrom(_, _)
\* get_first_error: the first Err of fee_collection_results from index k on,
\* "None" when there is none.
FirstErrorFrom(fee_collection_results, k) ==
    IF k > Len(fee_collection_results) THEN "None"
    ELSE IF fee_collection_results[k] # OkResult
         THEN fee_collection_results[k]
         ELSE FirstErrorFrom(fee_collection_results, k + 1)

\* Mutant: a later error replaces an earlier one.
get_last_error(fee_collection_results) ==
    LET errs == {k \in 1..Len(fee_collection_results) :
                     fee_collection_results[k] # OkResult}
    IN  IF errs = {} THEN "None"
        ELSE fee_collection_results[CHOOSE k \in errs : \A j \in errs : j <= k]

get_first_error(fee_collection_results) == FirstErrorFrom(fee_collection_results, 1)

\* execute_batch, last line: first_err.map(..).unwrap_or(Ok(()))
FirstErrorResult(fee_collection_results) ==
    IF get_first_error(fee_collection_results) = "None"
    THEN OkResult
    ELSE get_first_error(fee_collection_results)

check_accounts_data_block_size(feature_set, delta) ==
    IF ~feature_set.cap_accounts_data_size_per_block THEN OkResult
    ELSE IF delta > MAX_ACCOUNT_DATA_BLOCK_LEN THEN DataBlockErr
    ELSE OkResult

\* Mutant: the total-size check made whatever cap_accounts_data_len says.
check_accounts_data_total_size_ungated(feature_set, execution_results) ==
    IF \E k \in 1..Len(execution_results) : execution_results[k] = MaxDataErr
    THEN MaxDataErr
    ELSE OkResult

check_accounts_data_total_size(feature_set, execution_results) ==
    IF ~feature_set.cap_accounts_data_len THEN OkResult
    ELSE IF \E k \in 1..Len(execution_results) : execution_results[k] = MaxDataErr
         THEN MaxDataErr
         ELSE OkResult

\* Mutant: the total-size check made before the block-size check.
check_accounts_data_size_total_first(feature_set, delta, execution_results) ==
    IF check_accounts_data_total_size(feature_set, execution_results) # OkResult
    THEN check_accounts_data_total_size(feature_set, execution_results)
    ELSE check_accounts_data_block_size(feature_set, delta)

check_accounts_data_size(feature_set, delta, execution_results) ==
    IF check_accounts_data_block_size(feature_set, delta) # OkResult
    THEN check_accounts_data_block_size(feature_set, delta)
    ELSE check_accounts_data_total_size(feature_set, execution_results)

(* ------------------------------- state --------------------------------- *)

VARIABLES
    numThreads,     \* num_threads of Replayer::new
    features,       \* bank.feature_set
    dataDelta,      \* bank: accounts-data-size delta on chain
    meter,          \* the block's BlockCostCapacityMeter
    meterLog,       \* history: the accumulate calls since the last reset
    resets,         \* history: number of meter resets
    senderAlive,    \* ReplayerHandle.request_sender not dropped
    receiverAlive,  \* ReplayerHandle.response_receiver not dropped
    reqQ,           \* the request channel
    respQ,          \* the response channel
    sent,           \* number of requests send() has enqueued
    sendResult,     \* what the last send() returned
    pc,             \* each thread's position in the worker loop / execute_batch
    cur,            \* each thread's request and the locals of execute_batch
    opc,            \* the owner's position in recv_and_drain
    results,        \* recv_and_drain's local `results`
    queuedAtRecv,   \* history: the responses queued behind the first one received
    lastRet,        \* what the last recv_and_drain returned
    received,       \* history: per idx, the number of responses handed to the owner
    calls,          \* history: number of direct calls of execute_batch
    joinI,          \* Replayer::join: 0 before the call, then the thread being joined
    tjPc,           \* Tpu::join: "none" before the call, "waiting", "returned"
    tjRet,          \* what Tpu::join returned
    timedOut,       \* Tpu::join logged the timeout
    clock,          \* seconds Tpu::join has waited in recv_timeout
    helperPc,       \* the thread Tpu::join spawns: "none", "do_join", "send", "done", "panicked"
    joined,         \* do_join: the threads whose join() has returned, in order
    djResults,      \* do_join: what those joins returned
    djRet,          \* what do_join returned
    chan,           \* the packet channels Tpu::new creates, by name
    banked,         \* the packets the banking stage has received, by receiver
    ingested,       \* history: number of packets that entered the channels
    discarded,      \* history: the packets a stage did not send on, with the stage
    wirePc,         \* where the conversion of a wire packet stands
    protoIn,        \* the wire packet received, <<>> before the first
    packetOut,      \* the Packet proto_packet_to_packet returned for it, or <<>>
    protoBack       \* the wire packet the Packet was serialized back to, or <<>>

tpuVars == <<tjPc, tjRet, timedOut, clock, helperPc, joined, djResults, djRet>>

netVars == <<chan, banked, ingested, discarded>>

wireVars == <<wirePc, protoIn, packetOut, protoBack>>

\* The state outside the replay pool.
restVars == <<tpuVars, netVars, wireVars>>

\* The replay pool and its handle.
poolVars == <<numThreads, features, dataDelta, meter, meterLog, resets, senderAlive,
              receiverAlive, reqQ, respQ, sent, sendResult, pc, cur, opc, results,
              queuedAtRecv, lastRet, received, calls, joinI>>

vars == <<poolVars, restVars>>

notTpuVars == <<poolVars, netVars, wireVars>>

notNetVars == <<poolVars, tpuVars, wireVars>>

notWireVars == <<poolVars, tpuVars, netVars>>

bankVars == <<features, dataDelta>>

meterVars == <<meter, meterLog, resets>>

handleVars == <<senderAlive, receiverAlive>>

ownerVars == <<opc, results, queuedAtRecv, lastRet, received>>

Workers == 1..numThreads

\* A thread's locals when it holds no request.  tx_results is what the bank
\* returned (per transaction: flattened execution result, fee-collection
\* result); remaining is the meter's answer, -1 when the meter was not asked.
\* votesSent, statusSent and callbacks record the side effects on the vote
\* sender, the status sender and the entry callback: each optional field of the
\* request is the caller's choice, drawn where the worker reads it.
NoRequest ==
    [idx |-> 0, ntx |-> 0, timing |-> <<>>, pre_process_units |-> 0,
     tx_results |-> <<>>, remaining |-> -1, votesSent |-> FALSE,
     statusSent |-> FALSE, callbacks |-> 0, result |-> "None",
     entry_callback |-> FALSE]

\* Mutant: the worker's timings are kept from one request to the next.
ReceivedStaleTimings(request) ==
    [NoRequest EXCEPT !.idx = request.idx, !.ntx = request.ntx,
                      !.timing = <<[count |-> 1, accumulated_units |-> 20]>>]

\* The locals right after the worker received `request` (line 121: fresh timings).
Received(request) ==
    [NoRequest EXCEPT !.idx = request.idx, !.ntx = request.ntx]

\* What is left when execute_batch has returned `result`: the caller's batch
\* and timings; tx_results and remaining are kept to state what was decided,
\* votesSent and statusSent to state what the call has sent.
ReturnedFrom(locals, result) ==
    [locals EXCEPT !.result = result]

\* What the worker loop holds after the entry callback: result, timing, idx.
AfterCallback(locals, callbacks) ==
    [NoRequest EXCEPT !.idx = locals.idx, !.ntx = locals.ntx,
                      !.timing = locals.timing, !.result = locals.result,
                      !.callbacks = callbacks]

execution_results(locals) == [k \in 1..Len(locals.tx_results) |-> locals.tx_results[k].exec]

fee_collection_results(locals) == [k \in 1..Len(locals.tx_results) |-> locals.tx_results[k].fee]

\* A worker whose thread has not returned still holds its clones of the
\* request receiver and of the response sender.
Alive(w) == pc[w] # "terminated"

RequestReceivers == {w \in Workers : Alive(w)}

ResponseSenders == {w \in Workers : Alive(w)}

\* A Tpu whose join has not been called.
TpuBuilt ==
    /\ tjPc = "none"
    /\ tjRet = "None"
    /\ timedOut = FALSE
    /\ clock = 0
    /\ helperPc = "none"
    /\ joined = <<>>
    /\ djResults = <<>>
    /\ djRet = "None"

\* The channels of Tpu::new that carry packets, named after their sender and
\* receiver variables.
PacketChannels ==
    {"packet_intercept", "packet", "vote_packet", "find_packet_sender_stake",
     "vote_find_packet_sender_stake", "verified", "verified_tpu_vote_packets",
     "verified_gossip_vote_packets"}

\* Tpu::new, lines 116-125: the senders FetchStage::new_with_sender is given
\* for the transactions and forwards sockets and for the vote sockets.
FetchStageSenders ==
    [sender |-> "packet_intercept", vote_sender |-> "vote_packet"]

\* Mutant: the QUIC listener given the main packet channel's sender.
QuicSenderMain == "packet"

\* Tpu::new, lines 157-168: the sender spawn_server is given.
QuicSender == "packet_intercept"

\* Tpu::new, lines 129-135.
FindPacketSenderStakeWiring ==
    [receiver |-> "packet", sender |-> "find_packet_sender_stake"]

\* Tpu::new, lines 140-146.
VoteFindPacketSenderStakeWiring ==
    [receiver |-> "vote_packet", sender |-> "vote_find_packet_sender_stake"]

\* Tpu::new, lines 170-178: TransactionSigVerifier::default().
SigVerifyWiring ==
    [receiver |-> "find_packet_sender_stake", sender |-> "verified",
     reject_non_vote |-> FALSE]

\* Mutant: the vote verifier built with TransactionSigVerifier::default().
VoteSigVerifyDefaultVerifier ==
    [receiver |-> "vote_find_packet_sender_stake",
     sender |-> "verified_tpu_vote_packets", reject_non_vote |-> FALSE]

\* Tpu::new, lines 182-190: TransactionSigVerifier::new_reject_non_vote().
VoteSigVerifyWiring ==
    [receiver |-> "vote_find_packet_sender_stake",
     sender |-> "verified_tpu_vote_packets", reject_non_vote |-> TRUE]

\* Tpu::new, lines 194-202.
MevStageWiring ==
    [verified_sender |-> "verified", packet_intercept_receiver |-> "packet_intercept",
     packet_sender |-> "packet"]

\* Tpu::new, lines 226-236: the three packet receivers of BankingStage::new.
BankingStageReceivers ==
    [verified_receiver |-> "verified",
     tpu_verified_vote_receiver |-> "verified_tpu_vote_packets",
     verified_vote_receiver |-> "verified_gossip_vote_packets"]

\* A Tpu just built: every channel empty.
NetBuilt ==
    /\ chan = [ch \in PacketChannels |-> <<>>]
    /\ banked = [r \in DOMAIN BankingStageReceivers |-> <<>>]
    /\ ingested = 0
    /\ discarded = <<>>

\* No wire packet received yet.
WireIdle ==
    /\ wirePc = "idle"
    /\ protoIn = <<>>
    /\ packetOut = <<>>
    /\ protoBack = <<>>

\* Replayer::new(num_threads): both channels empty, every worker started; the
\* requests will name a bank with one of `featureSets` and a fresh meter with
\* one of the capacities `caps`; each thread is at `start`.
InitPool(threads, featureSets, caps, start) ==
    /\ numThreads \in threads
    /\ features \in featureSets
    /\ dataDelta = MAX_ACCOUNT_DATA_BLOCK_LEN
    /\ meter \in {[capacity |-> c, accumulated_cost |-> 0] : c \in caps}
    /\ meterLog = <<>>
    /\ resets = 0
    /\ senderAlive = TRUE
    /\ receiverAlive = TRUE
    /\ reqQ = <<>>
    /\ respQ = <<>>
    /\ sent = 0
    /\ sendResult = "None"
    /\ pc = [w \in Workers |-> start]
    /\ cur = [w \in Workers |-> NoRequest]
    /\ opc = "idle"
    /\ results = <<>>
    /\ queuedAtRecv = <<>>
    /\ lastRet = "None"
    /\ received = [i \in 1..MaxRequests |-> 0]
    /\ calls = 0
    /\ joinI = 0
    /\ TpuBuilt
    /\ NetBuilt
    /\ WireIdle

(* ------------------------------ the owner ------------------------------ *)

\* Mutant: send on a channel bounded to one request, which blocks while full.
SendBounded ==
    /\ senderAlive
    /\ sent < MaxRequests
    /\ Len(reqQ) < 1
    /\ IF RequestReceivers # {}
       THEN /\ reqQ' = Append(reqQ, [idx |-> sent + 1, ntx |-> 1])
            /\ sent' = sent + 1
            /\ sendResult' = "Ok"
       ELSE /\ sendResult' = "ChannelClosed"
            /\ UNCHANGED <<reqQ, sent>>
    /\ UNCHANGED <<numThreads, bankVars, meterVars, handleVars, respQ, pc, cur,
                   ownerVars, calls, joinI, restVars>>

\* ReplayerHandle::send of the request with the next idx: crossbeam's unbounded
\* send fails only when every receiver is gone.
Send ==
    /\ senderAlive
    /\ sent < MaxRequests
    /\ IF RequestReceivers # {}
       THEN /\ reqQ' = Append(reqQ, [idx |-> sent + 1, ntx |-> 1])
            /\ sent' = sent + 1
            /\ sendResult' = "Ok"
       ELSE /\ sendResult' = "ChannelClosed"
            /\ UNCHANGED <<reqQ, sent>>
    /\ UNCHANGED <<numThreads, bankVars, meterVars, handleVars, respQ, pc, cur,
                   ownerVars, calls, joinI, restVars>>

\* recv_and_drain, line 77: the blocking recv() of the first response.  The
\* call borrows the handle, so the handle is not being dropped.
RecvFirst ==
    /\ senderAlive
    /\ receiverAlive
    /\ opc = "idle"
    /\ IF respQ # <<>>
       THEN /\ results' = <<Head(respQ)>>
            /\ respQ' = Tail(respQ)
            /\ queuedAtRecv' = Tail(respQ)
            /\ opc' = "drain"
            /\ UNCHANGED lastRet
       ELSE /\ ResponseSenders = {}
            /\ lastRet' = "ChannelClosed"
            /\ UNCHANGED <<results, respQ, queuedAtRecv, opc>>
    /\ UNCHANGED <<numThreads, bankVars, meterVars, handleVars, reqQ, sent, sendResult,
                   pc, cur, received, calls, joinI, restVars>>

RECURSIVE Handed(_, _)
\* Per idx, the number of responses the owner has been handed, those of
\* `list` added.
Handed(rcv, list) ==
    IF list = <<>> THEN rcv
    ELSE Handed([rcv EXCEPT ![Head(list).idx] = @ + 1], Tail(list))

\* Mutant: recv_and_drain returns the first response without draining the rest.
DrainNothing ==
    /\ opc = "drain"
    /\ lastRet' = "Ok"
    /\ received' = Handed(received, results)
    /\ results' = <<>>
    /\ queuedAtRecv' = <<>>
    /\ opc' = "idle"
    /\ UNCHANGED <<numThreads, bankVars, meterVars, handleVars, reqQ, respQ, sent,
                   sendResult, pc, cur, calls, joinI, restVars>>

\* recv_and_drain, line 78: one try_recv of try_iter(); Ok(results) when it
\* finds the channel empty.
DrainNext ==
    /\ opc = "drain"
    /\ IF respQ # <<>>
       THEN /\ results' = Append(results, Head(respQ))
            /\ respQ' = Tail(respQ)
            /\ UNCHANGED <<opc, queuedAtRecv, lastRet, received>>
       ELSE /\ lastRet' = "Ok"
            /\ received' = Handed(received, results)
            /\ results' = <<>>
            /\ queuedAtRecv' = <<>>
            /\ opc' = "idle"
            /\ UNCHANGED respQ
    /\ UNCHANGED <<numThreads, bankVars, meterVars, handleVars, reqQ, sent, sendResult,
                   pc, cur, calls, joinI, restVars>>

\* Dropping the ReplayerHandle: its fields are dropped in declaration order,
\* request_sender first.
DropSender ==
    /\ senderAlive
    /\ opc = "idle"
    /\ senderAlive' = FALSE
    /\ UNCHANGED <<numThreads, bankVars, meterVars, receiverAlive, reqQ, respQ, sent,
                   sendResult, pc, cur, ownerVars, calls, joinI, restVars>>

\* ... then response_receiver; the responses still queued are discarded.
DropReceiver ==
    /\ ~senderAlive
    /\ receiverAlive
    /\ receiverAlive' = FALSE
    /\ respQ' = <<>>
    /\ UNCHANGED <<numThreads, bankVars, meterVars, senderAlive, reqQ, sent, sendResult,
                   pc, cur, ownerVars, calls, joinI, restVars>>

\* Replayer::join is called: it consumes the Replayer and starts with the first
\* thread of self.threads.
JoinCall ==
    /\ joinI = 0
    /\ joinI' = 1
    /\ UNCHANGED <<numThreads, bankVars, meterVars, handleVars, reqQ, respQ, sent,
                   sendResult, pc, cur, ownerVars, calls, restVars>>

\* Replayer::join, lines 167-169: t.join() returns when thread t has ended;
\* after the last thread join returns Ok(()).
JoinThread ==
    /\ joinI \in 1..numThreads
    /\ pc[joinI] = "terminated"
    /\ joinI' = joinI + 1
    /\ UNCHANGED <<numThreads, bankVars, meterVars, handleVars, reqQ, respQ, sent,
                   sendResult, pc, cur, ownerVars, calls, restVars>>

\* The meter's owner resets it at a block boundary.
ResetMeter ==
    /\ resets < MaxResets
    /\ meter' = [meter EXCEPT !.accumulated_cost = 0]
    /\ meterLog' = <<>>
    /\ resets' = resets + 1
    /\ UNCHANGED <<numThreads, bankVars, handleVars, reqQ, respQ, sent, sendResult,
                   pc, cur, ownerVars, calls, joinI, restVars>>

(* ----------------------------- the workers ----------------------------- *)

\* Line 110: the top of the worker's loop.
WorkerLoop(w) ==
    /\ pc[w] = "idle"
    /\ pc' = [pc EXCEPT ![w] = "recv"]
    /\ UNCHANGED <<numThreads, bankVars, meterVars, handleVars, reqQ, respQ, sent,
                   sendResult, cur, ownerVars, calls, joinI, restVars>>

\* Mutant: recv() that gives up on an empty channel instead of blocking.
WorkerRecvNoWait(w) ==
    /\ pc[w] = "recv"
    /\ IF reqQ # <<>>
       THEN /\ cur' = [cur EXCEPT ![w] = Received(Head(reqQ))]
            /\ reqQ' = Tail(reqQ)
            /\ pc' = [pc EXCEPT ![w] = "execute"]
       ELSE /\ pc' = [pc EXCEPT ![w] = "terminated"]
            /\ UNCHANGED <<cur, reqQ>>
    /\ UNCHANGED <<numThreads, bankVars, meterVars, handleVars, respQ, sent, sendResult,
                   ownerVars, calls, joinI, restVars>>

\* Mutant: recv() that keeps waiting on an empty channel whose sender is dropped.
WorkerRecvForever(w) ==
    /\ pc[w] = "recv"
    /\ reqQ # <<>>
    /\ cur' = [cur EXCEPT ![w] = Received(Head(reqQ))]
    /\ reqQ' = Tail(reqQ)
    /\ pc' = [pc EXCEPT ![w] = "execute"]
    /\ UNCHANGED <<numThreads, bankVars, meterVars, handleVars, respQ, sent, sendResult,
                   ownerVars, calls, joinI, restVars>>

\* Lines 111-128 and 154-157: request_receiver.recv().  It blocks while the
\* channel is empty and a sender is left; Err ends the thread.
WorkerRecv(w) ==
    /\ pc[w] = "recv"
    /\ IF reqQ # <<>>
       THEN /\ \E entry_callback \in BOOLEAN :
                  cur' = [cur EXCEPT ![w] =
                            [Received(Head(reqQ)) EXCEPT
                                !.entry_callback = entry_callback]]
            /\ reqQ' = Tail(reqQ)
            /\ pc' = [pc EXCEPT ![w] = "execute"]
       ELSE /\ ~senderAlive
            /\ pc' = [pc EXCEPT ![w] = "terminated"]
            /\ UNCHANGED <<cur, reqQ>>
    /\ UNCHANGED <<numThreads, bankVars, meterVars, handleVars, respQ, sent, sendResult,
                   ownerVars, calls, joinI, restVars>>

\* execute_batch, lines 205-214: the pre-execution aggregate, then the bank's
\* load_execute_and_commit_transactions, which adds to the timings, changes the
\* bank and returns one result per transaction of the batch.  `bank` names what
\* the bank may answer: timing profiles, transaction outcomes, data deltas.
LoadExecuteAndCommit(w, bank) ==
    /\ pc[w] = "execute"
    /\ \E profile \in bank.profiles, outcome \in [1..cur[w].ntx -> bank.outcomes],
          delta \in bank.deltas :
          /\ cur' = [cur EXCEPT ![w] =
                        [@ EXCEPT !.pre_process_units =
                                      aggregate_total_execution_units(cur[w].timing),
                                  !.timing = cur[w].timing \o profile,
                                  !.tx_results = outcome]]
          /\ dataDelta' = delta
    /\ pc' = [pc EXCEPT ![w] = "costcap"]
    /\ UNCHANGED <<numThreads, features, meterVars, handleVars, reqQ, respQ, sent,
                   sendResult, ownerVars, calls, joinI, restVars>>

\* Mutant: a batch that used no compute units is not charged to the meter.
CostCapCheckSkipZero(w) ==
    /\ pc[w] = "costcap"
    /\ IF /\ features.gate_large_block
          /\ ExecutionCostUnits(cur[w].timing, cur[w].pre_process_units) # 0
       THEN LET execution_cost_units ==
                    ExecutionCostUnits(cur[w].timing, cur[w].pre_process_units)
                charged == accumulate(meter, execution_cost_units)
                remaining_block_cost_cap == RemainingCap(charged)
                asked == [cur[w] EXCEPT !.remaining = remaining_block_cost_cap]
            IN  /\ meter' = charged
                /\ meterLog' = Append(meterLog, [units |-> execution_cost_units,
                                                 remaining |-> remaining_block_cost_cap])
                /\ IF CostCapExceeded(remaining_block_cost_cap)
                   THEN /\ cur' = [cur EXCEPT ![w] = ReturnedFrom(asked, CostLimitErr)]
                        /\ pc' = [pc EXCEPT ![w] = "callback"]
                   ELSE /\ cur' = [cur EXCEPT ![w] = asked]
                        /\ pc' = [pc EXCEPT ![w] = "votes"]
       ELSE /\ pc' = [pc EXCEPT ![w] = "votes"]
            /\ UNCHANGED <<meter, meterLog, cur>>
    /\ UNCHANGED <<numThreads, bankVars, resets, handleVars, reqQ, respQ, sent,
                   sendResult, ownerVars, calls, joinI, restVars>>

\* Mutant: accumulate without the write lock; of two workers that are at the
\* meter together, the one that writes first has its update overwritten.
CostCapCheckUnlocked(w) ==
    /\ pc[w] = "costcap"
    /\ IF features.gate_large_block
       THEN LET execution_cost_units ==
                    ExecutionCostUnits(cur[w].timing, cur[w].pre_process_units)
                charged == accumulate(meter, execution_cost_units)
                remaining_block_cost_cap == RemainingCap(charged)
                asked == [cur[w] EXCEPT !.remaining = remaining_block_cost_cap]
                raced == \E v \in Workers \ {w} : pc[v] = "costcap"
            IN  /\ meter' = IF raced THEN meter ELSE charged
                /\ meterLog' = Append(meterLog, [units |-> execution_cost_units,
                                                 remaining |-> remaining_block_cost_cap])
                /\ IF CostCapExceeded(remaining_block_cost_cap)
                   THEN /\ cur' = [cur EXCEPT ![w] = ReturnedFrom(asked, CostLimitErr)]
                        /\ pc' = [pc EXCEPT ![w] = "callback"]
                   ELSE /\ cur' = [cur EXCEPT ![w] = asked]
                        /\ pc' = [pc EXCEPT ![w] = "votes"]
       ELSE /\ pc' = [pc EXCEPT ![w] = "votes"]
            /\ UNCHANGED <<meter, meterLog, cur>>
    /\ UNCHANGED <<numThreads, bankVars, resets, handleVars, reqQ, respQ, sent,
                   sendResult, ownerVars, calls, joinI, restVars>>

\* execute_batch, lines 216-237: the block cost cap, under the meter's write lock.
CostCapCheck(w) ==
    /\ pc[w] = "costcap"
    /\ IF features.gate_large_block
       THEN LET execution_cost_units ==
                    ExecutionCostUnits(cur[w].timing, cur[w].pre_process_units)
                charged == accumulate(meter, execution_cost_units)
                remaining_block_cost_cap == RemainingCap(charged)
                asked == [cur[w] EXCEPT !.remaining = remaining_block_cost_cap]
            IN  /\ meter' = charged
                /\ meterLog' = Append(meterLog, [units |-> execution_cost_units,
                                                 remaining |-> remaining_block_cost_cap])
                /\ IF CostCapExceeded(remaining_block_cost_cap)
                   THEN /\ cur' = [cur EXCEPT ![w] = ReturnedFrom(asked, CostLimitErr)]
                        /\ pc' = [pc EXCEPT ![w] = "callback"]
                   ELSE /\ cur' = [cur EXCEPT ![w] = asked]
                        /\ pc' = [pc EXCEPT ![w] = "votes"]
       ELSE /\ pc' = [pc EXCEPT ![w] = "votes"]
            /\ UNCHANGED <<meter, meterLog, cur>>
    /\ UNCHANGED <<numThreads, bankVars, resets, handleVars, reqQ, respQ, sent,
                   sendResult, ownerVars, calls, joinI, restVars>>

\* execute_batch, lines 239-243: bank_utils::find_and_send_votes, which sends
\* when a vote sender is present and it identifies the transaction as a vote.
FindAndSendVotes(w) ==
    /\ pc[w] = "votes"
    /\ \E replay_vote_sender \in BOOLEAN, is_vote \in BOOLEAN :
          cur' = [cur EXCEPT ![w].votesSent = replay_vote_sender /\ is_vote]
    /\ pc' = [pc EXCEPT ![w] = "datasize"]
    /\ UNCHANGED <<numThreads, bankVars, meterVars, handleVars, reqQ, respQ, sent,
                   sendResult, ownerVars, calls, joinI, restVars>>

\* Mutant: the status batch is published before the accounts-data-size checks.
PublishAndCheck(w) ==
    /\ pc[w] = "datasize"
    /\ LET checked == check_accounts_data_size(features, dataDelta,
                                               execution_results(cur[w]))
       IN  \E transaction_status_sender \in BOOLEAN :
              cur' = [cur EXCEPT ![w] =
                        [ReturnedFrom(cur[w],
                             IF checked # OkResult THEN checked
                             ELSE FirstErrorResult(fee_collection_results(cur[w])))
                         EXCEPT !.statusSent = transaction_status_sender]]
    /\ pc' = [pc EXCEPT ![w] = "callback"]
    /\ UNCHANGED <<numThreads, bankVars, meterVars, handleVars, reqQ, respQ, sent,
                   sendResult, ownerVars, calls, joinI, restVars>>

\* Mutant: the first fee-collection error is returned before the
\* accounts-data-size checks are looked at.
CheckAndPublishFeeFirst(w) ==
    /\ pc[w] = "datasize"
    /\ LET checked == check_accounts_data_size(features, dataDelta,
                                               execution_results(cur[w]))
           first_err == FirstErrorResult(fee_collection_results(cur[w]))
       IN  IF first_err # OkResult
           THEN cur' = [cur EXCEPT ![w] = ReturnedFrom(cur[w], first_err)]
           ELSE IF checked # OkResult
           THEN cur' = [cur EXCEPT ![w] = ReturnedFrom(cur[w], checked)]
           ELSE \E transaction_status_sender \in BOOLEAN :
                  cur' = [cur EXCEPT ![w] =
                            [ReturnedFrom(cur[w], first_err)
                             EXCEPT !.statusSent = transaction_status_sender]]
    /\ pc' = [pc EXCEPT ![w] = "callback"]
    /\ UNCHANGED <<numThreads, bankVars, meterVars, handleVars, reqQ, respQ, sent,
                   sendResult, ownerVars, calls, joinI, restVars>>

\* execute_batch, lines 252-276: the accounts-data-size checks, the status
\* batch and the first fee-collection error.
CheckAndPublish(w) ==
    /\ pc[w] = "datasize"
    /\ LET checked == check_accounts_data_size(features, dataDelta,
                                               execution_results(cur[w]))
       IN  IF checked # OkResult
           THEN cur' = [cur EXCEPT ![w] = ReturnedFrom(cur[w], checked)]
           ELSE \E transaction_status_sender \in BOOLEAN :
                  cur' = [cur EXCEPT ![w] =
                            [ReturnedFrom(cur[w],
                                 FirstErrorResult(fee_collection_results(cur[w])))
                             EXCEPT !.statusSent = transaction_status_sender]]
    /\ pc' = [pc EXCEPT ![w] = "callback"]
    /\ UNCHANGED <<numThreads, bankVars, meterVars, handleVars, reqQ, respQ, sent,
                   sendResult, ownerVars, calls, joinI, restVars>>

\* Mutant: the entry callback is called only when execute_batch returned Ok.
EntryCallbackOnOk(w) ==
    /\ pc[w] = "callback"
    /\ cur' = [cur EXCEPT ![w] =
                 AfterCallback(cur[w], IF cur[w].entry_callback /\ cur[w].result = OkResult
                                       THEN 1 ELSE 0)]
    /\ pc' = [pc EXCEPT ![w] = "respond"]
    /\ UNCHANGED <<numThreads, bankVars, meterVars, handleVars, reqQ, respQ, sent,
                   sendResult, ownerVars, calls, joinI, restVars>>

\* Lines 138-140: the entry callback, when the request carries one.
EntryCallback(w) ==
    /\ pc[w] = "callback"
    /\ cur' = [cur EXCEPT ![w] =
                 AfterCallback(cur[w], IF cur[w].entry_callback THEN 1 ELSE 0)]
    /\ pc' = [pc EXCEPT ![w] = "respond"]
    /\ UNCHANGED <<numThreads, bankVars, meterVars, handleVars, reqQ, respQ, sent,
                   sendResult, ownerVars, calls, joinI, restVars>>

\* Mutant: the response carries a fixed idx instead of the request's.
MakeResponseFixedIdx(result, timing, idx) ==
    [result |-> result, timing |-> timing, idx |-> 1]

\* Lines 143-147: the ReplayResponse the worker builds.
MakeResponse(result, timing, idx) ==
    [result |-> result, timing |-> timing, idx |-> idx]

\* Mutant: the worker goes back to its loop without sending the response.
SendResponseSkipped(w) ==
    /\ pc[w] = "respond"
    /\ pc' = [pc EXCEPT ![w] = "idle"]
    /\ cur' = [cur EXCEPT ![w] = NoRequest]
    /\ UNCHANGED <<numThreads, bankVars, meterVars, handleVars, reqQ, respQ, sent,
                   sendResult, ownerVars, calls, joinI, restVars>>

\* Mutant: a worker whose request failed ends instead of answering.
SendResponseFatal(w) ==
    /\ pc[w] = "respond"
    /\ IF receiverAlive /\ cur[w].result = OkResult
       THEN /\ respQ' = Append(respQ, MakeResponse(cur[w].result, cur[w].timing,
                                                   cur[w].idx))
            /\ pc' = [pc EXCEPT ![w] = "idle"]
       ELSE /\ pc' = [pc EXCEPT ![w] = "terminated"]
            /\ UNCHANGED respQ
    /\ cur' = [cur EXCEPT ![w] = NoRequest]
    /\ UNCHANGED <<numThreads, bankVars, meterVars, handleVars, reqQ, sent, sendResult,
                   ownerVars, calls, joinI, restVars>>

\* Lines 142-152: response_sender.send(..); a failed send ends the thread.
SendResponse(w) ==
    /\ pc[w] = "respond"
    /\ IF receiverAlive
       THEN /\ respQ' = Append(respQ, MakeResponse(cur[w].result, cur[w].timing,
                                                   cur[w].idx))
            /\ pc' = [pc EXCEPT ![w] = "idle"]
       ELSE /\ pc' = [pc EXCEPT ![w] = "terminated"]
            /\ UNCHANGED respQ
    /\ cur' = [cur EXCEPT ![w] = NoRequest]
    /\ UNCHANGED <<numThreads, bankVars, meterVars, handleVars, reqQ, sent, sendResult,
                   ownerVars, calls, joinI, restVars>>

\* One step of execute_batch.
ExecuteBatchStep(w, bank) ==
    \/ LoadExecuteAndCommit(w, bank)
    \/ CostCapCheck(w)
    \/ FindAndSendVotes(w)
    \/ CheckAndPublish(w)

\* One step of the worker thread started by start_replay_threads.
WorkerStep(w, bank) ==
    \/ WorkerLoop(w)
    \/ WorkerRecv(w)
    \/ ExecuteBatchStep(w, bank)
    \/ EntryCallback(w)
    \/ SendResponse(w)

\* A call of execute_batch on a batch of n transactions by thread w, which has
\* made no call yet ("direct") or has the last call's result ("callback").
DirectCall(w, n) ==
    /\ pc[w] \in {"direct", "callback"}
    /\ calls < MaxCalls
    /\ calls' = calls + 1
    /\ cur' = [cur EXCEPT ![w] = Received([idx |-> 0, ntx |-> n])]
    /\ pc' = [pc EXCEPT ![w] = "execute"]
    /\ UNCHANGED <<numThreads, bankVars, meterVars, handleVars, reqQ, respQ, sent,
                   sendResult, ownerVars, joinI, restVars>>

(* ---------------------------- Tpu shutdown ----------------------------- *)

\* The stages do_join puts in `results`, in the order it joins them.
PipelineStages ==
    <<"fetch_stage", "sigverify_stage", "vote_sigverify_stage",
      "cluster_info_vote_listener", "banking_stage", "find_packet_sender_stake_stage",
      "vote_find_packet_sender_stake_stage", "staked_nodes_updater_service",
      "mev_stage", "bundle_stage">>

\* Every join of do_join, in program order.
DoJoinOrder == PipelineStages \o <<"tpu_quic_t", "broadcast_stage">>

\* thread::Result<()> of a join: Err when the joined thread panicked.
JoinResults == {"Ok", "Err"}

RECURSIVE FirstErr(_)
\* do_join, lines 308-310: the first Err of `results`, "Ok" when there is none.
FirstErr(rs) ==
    IF rs = <<>> THEN "Ok"
    ELSE IF Head(rs) = "Err" THEN "Err" ELSE FirstErr(Tail(rs))

\* Tpu::join, lines 279-287: the rendezvous channel, the spawned thread, and
\* the caller entering recv_timeout.
TpuJoinCall ==
    /\ tjPc = "none"
    /\ tjPc' = "waiting"
    /\ helperPc' = "do_join"
    /\ UNCHANGED <<notTpuVars, tjRet, timedOut, clock, joined, djResults, djRet>>

\* do_join, lines 294-305: the join of the next pipeline stage returns; its
\* result is kept in `results`.  A stage that never ends never takes this step.
DoJoinStage ==
    /\ helperPc = "do_join"
    /\ Len(joined) < Len(PipelineStages)
    /\ \E r \in JoinResults :
          /\ joined' = Append(joined, DoJoinOrder[Len(joined) + 1])
          /\ djResults' = Append(djResults, r)
    /\ UNCHANGED <<notTpuVars, tjPc, tjRet, timedOut, clock, helperPc, djRet>>

\* do_join, line 306: self.tpu_quic_t.join()? returns the Err at once.
DoJoinQuic ==
    /\ helperPc = "do_join"
    /\ Len(joined) = Len(PipelineStages)
    /\ \E r \in JoinResults :
          /\ joined' = Append(joined, DoJoinOrder[Len(joined) + 1])
          /\ djResults' = Append(djResults, r)
          /\ IF r = "Err"
             THEN djRet' = "Err" /\ helperPc' = "send"
             ELSE UNCHANGED <<djRet, helperPc>>
    /\ UNCHANGED <<notTpuVars, tjPc, tjRet, timedOut, clock>>

\* do_join, lines 307-312: the join of the broadcast stage, then the first
\* error of the pipeline stages, then the broadcast stage's.
DoJoinBroadcast ==
    /\ helperPc = "do_join"
    /\ Len(joined) = Len(PipelineStages) + 1
    /\ \E broadcast_result \in JoinResults :
          /\ joined' = Append(joined, DoJoinOrder[Len(joined) + 1])
          /\ djResults' = Append(djResults, broadcast_result)
          /\ djRet' = IF FirstErr(SubSeq(djResults, 1, Len(PipelineStages))) = "Err"
                      THEN "Err"
                      ELSE broadcast_result
    /\ helperPc' = "send"
    /\ UNCHANGED <<notTpuVars, tjPc, tjRet, timedOut, clock>>

\* Lines 282 and 287: sender.send(()).unwrap() on the bounded(0) channel.  It
\* hands over to a caller still in recv_timeout, which returns Ok(()); once
\* the caller has returned the receiver is dropped, send fails and unwrap
\* panics in the spawned thread.
HelperSend ==
    /\ helperPc = "send"
    /\ IF tjPc = "waiting"
       THEN /\ tjPc' = "returned"
            /\ tjRet' = "Ok"
            /\ helperPc' = "done"
       ELSE /\ helperPc' = "panicked"
            /\ UNCHANGED <<tjPc, tjRet>>
    /\ UNCHANGED <<notTpuVars, timedOut, clock, joined, djResults, djRet>>

\* A second passes while the caller waits in recv_timeout.
Tick ==
    /\ tjPc = "waiting"
    /\ clock < TPU_THREADS_JOIN_TIMEOUT_SECONDS
    /\ clock' = clock + 1
    /\ UNCHANGED <<notTpuVars, tjPc, tjRet, timedOut, helperPc, joined, djResults, djRet>>

\* Mutant: the caller waits for do_join without a ceiling.
TpuJoinNoCeiling ==
    /\ tjPc = "waiting"
    /\ clock = TPU_THREADS_JOIN_TIMEOUT_SECONDS
    /\ helperPc = "send"
    /\ tjPc' = "returned"
    /\ tjRet' = "Ok"
    /\ timedOut' = TRUE
    /\ UNCHANGED <<notTpuVars, clock, helperPc, joined, djResults, djRet>>

\* Tpu::join, lines 286-290: recv_timeout gives Err(Timeout) after
\* TPU_THREADS_JOIN_TIMEOUT_SECONDS; the error is logged and Ok(()) returned.
TpuJoinTimeout ==
    /\ tjPc = "waiting"
    /\ clock = TPU_THREADS_JOIN_TIMEOUT_SECONDS
    /\ tjPc' = "returned"
    /\ tjRet' = "Ok"
    /\ timedOut' = TRUE
    /\ UNCHANGED <<notTpuVars, clock, helperPc, joined, djResults, djRet>>

(* ---------------------------- Tpu pipeline ----------------------------- *)

\* The sockets of TpuSockets packets come in by.
Sockets == {"transactions", "transaction_forwards", "vote", "transactions_quic"}

\* The thread that reads a socket and the sender it was given.
SocketReader(socket) ==
    IF socket = "transactions_quic" THEN "tpu_quic_t" ELSE "fetch_stage"

SocketSender(socket) ==
    CASE socket = "transactions_quic" -> QuicSender
      [] socket = "vote" -> FetchStageSenders.vote_sender
      [] OTHER -> FetchStageSenders.sender

\* A packet as the pipeline sees it: the socket it came in by ("remote" for a
\* packet the auction service returned), whether its transaction is a simple
\* vote (SIMPLE_VOTE_TX), whether its signatures verify, and the stages that
\* have handled it.
NewPacket(origin, simple_vote_tx, sig_ok, stage) ==
    [origin |-> origin, simple_vote_tx |-> simple_vote_tx, sig_ok |-> sig_ok,
     forwarded |-> origin = "transaction_forwards", via |-> <<stage>>]

Handled(p, stage) == [p EXCEPT !.via = Append(@, stage)]

\* A packet comes in by a socket; its reader sends it on the sender it holds.
Ingress(socket) ==
    /\ ingested < MaxPackets
    /\ ingested' = ingested + 1
    /\ \E simple_vote_tx \in BOOLEAN, sig_ok \in BOOLEAN :
          chan' = [chan EXCEPT ![SocketSender(socket)] =
                      Append(@, NewPacket(socket, simple_vote_tx, sig_ok,
                                          SocketReader(socket)))]
    /\ UNCHANGED <<notNetVars, banked, discarded>>

\* A stage takes the packet at the head of its receiver and sends it on its
\* sender when `keep` holds, and drops it otherwise.
Relay(stage, receiver, sender, keep) ==
    /\ chan[receiver] # <<>>
    /\ chan' = IF keep
               THEN [chan EXCEPT ![receiver] = Tail(@),
                                 ![sender] = Append(@, Handled(Head(chan[receiver]), stage))]
               ELSE [chan EXCEPT ![receiver] = Tail(@)]
    /\ discarded' = IF keep THEN discarded
                    ELSE Append(discarded, [stage |-> stage, packet |-> Head(chan[receiver])])
    /\ UNCHANGED <<notNetVars, banked, ingested>>

\* The auction interceptor takes a packet from the intercept channel: in
\* fallback mode it passes the packet on to the main packet channel, in
\* engaged mode it forwards the packet to the auction service.
MevIntercept ==
    \E engaged \in BOOLEAN :
       Relay("mev_stage", MevStageWiring.packet_intercept_receiver,
             MevStageWiring.packet_sender, ~engaged)

\* The auction interceptor emits a packet the auction service returned, on
\* one of the two packet senders it holds.
MevFromRemote ==
    /\ ingested < MaxPackets
    /\ ingested' = ingested + 1
    /\ \E simple_vote_tx \in BOOLEAN,
          sender \in {MevStageWiring.verified_sender, MevStageWiring.packet_sender} :
          chan' = [chan EXCEPT ![sender] =
                      Append(@, NewPacket("remote", simple_vote_tx, TRUE, "mev_stage"))]
    /\ UNCHANGED <<notNetVars, banked, discarded>>

\* The stake annotator of the main lane.
FindPacketSenderStake ==
    Relay("find_packet_sender_stake_stage", FindPacketSenderStakeWiring.receiver,
          FindPacketSenderStakeWiring.sender, TRUE)

\* The stake annotator of the vote lane.
VoteFindPacketSenderStake ==
    Relay("vote_find_packet_sender_stake_stage", VoteFindPacketSenderStakeWiring.receiver,
          VoteFindPacketSenderStakeWiring.sender, TRUE)

\* What a signature verifier lets through: packets whose signatures verify
\* and, for the reject-non-vote verifier, whose transaction is a simple vote.
Verifies(p, reject_non_vote) ==
    p.sig_ok /\ (reject_non_vote => p.simple_vote_tx)

\* The signature verifier of the main lane.
SigVerify ==
    /\ chan[SigVerifyWiring.receiver] # <<>>
    /\ Relay("sigverify_stage", SigVerifyWiring.receiver, SigVerifyWiring.sender,
             Verifies(Head(chan[SigVerifyWiring.receiver]),
                      SigVerifyWiring.reject_non_vote))

\* The signature verifier of the vote lane.
VoteSigVerify ==
    /\ chan[VoteSigVerifyWiring.receiver] # <<>>
    /\ Relay("vote_sigverify_stage", VoteSigVerifyWiring.receiver,
             VoteSigVerifyWiring.sender,
             Verifies(Head(chan[VoteSigVerifyWiring.receiver]),
                      VoteSigVerifyWiring.reject_non_vote))

\* The banking stage takes a packet from one of its receivers.
BankingRecv(r) ==
    /\ chan[BankingStageReceivers[r]] # <<>>
    /\ banked' = [banked EXCEPT ![r] = Append(@, Head(chan[BankingStageReceivers[r]]))]
    /\ chan' = [chan EXCEPT ![BankingStageReceivers[r]] = Tail(@)]
    /\ UNCHANGED <<notNetVars, ingested, discarded>>

(* ------------------------- wire packet lowering ------------------------- *)

\* Unsigned integers are little-endian sequences of 16-bit limbs: a u16 has
\* one limb, a u32 two, a u64 and a usize (64-bit target) four.
Limb == 65536

Zero(limbs) == [k \in 1..limbs |-> 0]

\* `x as T` for an unsigned T of `limbs` limbs: the low limbs are kept, missing
\* high limbs are zero.
AsUnsigned(x, limbs) ==
    [k \in 1..limbs |-> IF k <= Len(x) THEN x[k] ELSE 0]

\* Option<T>: <<>> is None, <<x>> is Some(x).
IsSome(o) == Len(o) = 1

V4(a, b, c, d) == [v |-> 4, segments |-> <<a, b, c, d>>]

V6(h) == [v |-> 6, segments |-> h]

UNKNOWN_IP == V4(0, 0, 0, 0)

\* str::parse::<IpAddr>() on the address literals of the model: Some(address)
\* for an IPv4 or IPv6 literal, None for anything else.
ParseIpAddr(s) ==
    CASE s = "0.0.0.0" -> <<V4(0, 0, 0, 0)>>
      [] s = "10.0.0.1" -> <<V4(10, 0, 0, 1)>>
      [] s = "::1" -> <<V6(<<0, 0, 0, 0, 0, 0, 0, 1>>)>>
      [] s = "0:0:0:0:0:0:0:1" -> <<V6(<<0, 0, 0, 0, 0, 0, 0, 1>>)>>
      [] OTHER -> <<>>

unwrap_or(o, default) == IF IsSome(o) THEN o[1] ELSE default

PacketFlags == {"DISCARD", "FORWARDED", "REPAIR", "SIMPLE_VOTE_TX", "TRACER_TX"}

\* Meta::default(): size 0, the unspecified IPv4 address, port 0, no flag.
MetaDefault ==
    [size |-> Zero(4), addr |-> V4(0, 0, 0, 0), port |-> Zero(1), flags |-> {}]

\* Packet::new(data, meta).
PacketNew(data, meta) == [data |-> data, meta |-> meta]

\* Mutant: forwarded and tracer_tx exchanged.
InsertedFlagsExchanged(flags) ==
    (IF flags.simple_vote_tx THEN {"SIMPLE_VOTE_TX"} ELSE {})
    \cup (IF flags.tracer_tx THEN {"FORWARDED"} ELSE {})
    \cup (IF flags.forwarded THEN {"TRACER_TX"} ELSE {})
    \cup (IF flags.repair THEN {"REPAIR"} ELSE {})

\* The flags lines 39-50 insert for the wire flags.
InsertedFlags(flags) ==
    (IF flags.simple_vote_tx THEN {"SIMPLE_VOTE_TX"} ELSE {})
    \cup (IF flags.forwarded THEN {"FORWARDED"} ELSE {})
    \cup (IF flags.tracer_tx THEN {"TRACER_TX"} ELSE {})
    \cup (IF flags.repair THEN {"REPAIR"} ELSE {})

\* proto_packet_to_packet(p), lines 29-54.
proto_packet_to_packet(p) ==
    LET zeroed == [i \in 1..PACKET_DATA_SIZE |-> 0]
        copy_len == Min(Len(zeroed), Len(p.data))
        data == [i \in 1..PACKET_DATA_SIZE |->
                    IF i <= copy_len THEN p.data[i] ELSE zeroed[i]]
        packet == PacketNew(data, MetaDefault)
    IN  IF IsSome(p.meta)
        THEN LET meta == p.meta[1]
             IN  [packet EXCEPT
                    !.meta.size = AsUnsigned(meta.size, 4),
                    !.meta.addr = unwrap_or(ParseIpAddr(meta.addr), UNKNOWN_IP),
                    !.meta.port = AsUnsigned(meta.port, 1),
                    !.meta.flags = IF IsSome(meta.flags)
                                   THEN @ \cup InsertedFlags(meta.flags[1])
                                   ELSE @]
        ELSE packet

\* Wire payloads: lengths around PACKET_DATA_SIZE, bytes that are not all
\* zero and not all nonzero.
WireBytes(len, seed) == [i \in 1..len |-> (i * seed) % 256]

WireData ==
    {WireBytes(len, 7) : len \in {0, PACKET_DATA_SIZE - 1, PACKET_DATA_SIZE,
                                  PACKET_DATA_SIZE + 1}}
    \cup {WireBytes(PACKET_DATA_SIZE, 255)}

\* u64 sizes: 0, the payload size, u64::MAX.
WireSizes ==
    {Zero(4), <<PACKET_DATA_SIZE, 0, 0, 0>>,
     <<Limb - 1, Limb - 1, Limb - 1, Limb - 1>>}

WireAddrs == {"0.0.0.0", "10.0.0.1", "::1", "0:0:0:0:0:0:0:1", "", "localhost"}

\* u32 ports: 0, 8001, 65535, 65536, 65536 + 8001, u32::MAX.
WirePorts ==
    {<<0, 0>>, <<8001, 0>>, <<Limb - 1, 0>>, <<0, 1>>, <<8001, 1>>,
     <<Limb - 1, Limb - 1>>}

WireFlagSets ==
    [simple_vote_tx : BOOLEAN, forwarded : BOOLEAN, tracer_tx : BOOLEAN,
     repair : BOOLEAN]

WireFlags == {<<>>} \cup {<<flags>> : flags \in WireFlagSets}

WireMetas ==
    {<<>>} \cup {<<meta>> : meta \in [size : WireSizes, addr : WireAddrs,
                                       port : WirePorts, flags : WireFlags]}

\* A wire packet arrives.
WireRecv ==
    /\ wirePc = "idle"
    /\ \E data \in WireData, meta \in WireMetas :
          protoIn' = <<[data |-> data, meta |-> meta]>>
    /\ wirePc' = "received"
    /\ packetOut' = <<>>
    /\ protoBack' = <<>>
    /\ UNCHANGED notWireVars

\* The wire packet is lowered.
Lower ==
    /\ wirePc = "received"
    /\ packetOut' = <<proto_packet_to_packet(protoIn[1])>>
    /\ wirePc' = "lowered"
    /\ UNCHANGED <<notWireVars, protoIn, protoBack>>

\* IpAddr::to_string() on the addresses of the model.
IpAddrToString(addr) ==
    CASE addr = V4(0, 0, 0, 0) -> "0.0.0.0"
      [] addr = V4(10, 0, 0, 1) -> "10.0.0.1"
      [] addr = V6(<<0, 0, 0, 0, 0, 0, 0, 1>>) -> "::1"

\* The wire packet of a Packet: every field of the Packet written out, the
\* integers widened to the wire's widths.
packet_to_proto_packet(packet) ==
    [data |-> packet.data,
     meta |-> <<[size |-> AsUnsigned(packet.meta.size, 4),
                 addr |-> IpAddrToString(packet.meta.addr),
                 port |-> AsUnsigned(packet.meta.port, 2),
                 flags |-> <<[simple_vote_tx |-> "SIMPLE_VOTE_TX" \in packet.meta.flags,
                              forwarded |-> "FORWARDED" \in packet.meta.flags,
                              tracer_tx |-> "TRACER_TX" \in packet.meta.flags,
                              repair |-> "REPAIR" \in packet.meta.flags]>>]>>]

\* The lowered Packet is serialized back to a wire packet.
Serialize ==
    /\ wirePc = "lowered"
    /\ protoBack' = <<packet_to_proto_packet(packetOut[1])>>
    /\ wirePc' = "serialized"
    /\ UNCHANGED <<notWireVars, protoIn, packetOut>>

\* The caller is done with the packet.
WireDone ==
    /\ wirePc \in {"lowered", "serialized"}
    /\ wirePc' = "idle"
    /\ protoIn' = <<>>
    /\ packetOut' = <<>>
    /\ protoBack' = <<>>
    /\ UNCHANGED notWireVars

(* --------------------------- specifications ---------------------------- *)

AllActive ==
    [gate_large_block |-> TRUE, cap_accounts_data_size_per_block |-> TRUE,
     cap_accounts_data_len |-> TRUE]

AllInactive ==
    [gate_large_block |-> FALSE, cap_accounts_data_size_per_block |-> FALSE,
     cap_accounts_data_len |-> FALSE]

OnlyGate == [AllInactive EXCEPT !.gate_large_block = TRUE]

Units60 == <<[count |-> 1, accumulated_units |-> 60], [count |-> 0, accumulated_units |-> 7]>>

\* Every answer of the bank the model distinguishes.
AnyBank == [profiles |-> TimingProfiles, outcomes |-> TxOutcomes, deltas |-> DataDeltas]

\* The pool's bank: transactions of 60 units that succeed or fail to load,
\* within or over the accounts-data block limit.
PoolBank ==
    [profiles |-> {Units60},
     outcomes |-> {[exec |-> OkResult, fee |-> OkResult],
                   [exec |-> "AccountNotFound", fee |-> "AccountNotFound"]},
     deltas |-> DataDeltas]

\* The metering bank: successful transactions of 0, 20, 30 or 60 units, or of
\* two programs of 200 units each.
MeterBank ==
    [profiles |-> TimingProfiles,
     outcomes |-> {[exec |-> OkResult, fee |-> OkResult]},
     deltas |-> {MAX_ACCOUNT_DATA_BLOCK_LEN}]

Init == InitPool(0..MaxThreads, {AllActive, AllInactive}, {100}, "idle")

Next ==
    \/ Send
    \/ RecvFirst
    \/ DrainNext
    \/ DropSender
    \/ DropReceiver
    \/ JoinCall
    \/ JoinThread
    \/ \E w \in Workers : WorkerStep(w, PoolBank)

\* The pool and its handle.
Spec == Init /\ [][Next]_vars

\* The pool under fair scheduling of its worker threads, with an owner that
\* keeps calling recv_and_drain.
FairSpec ==
    /\ Spec
    /\ \A w \in 1..MaxThreads : WF_vars(w \in Workers /\ WorkerStep(w, PoolBank))
    /\ WF_vars(RecvFirst)
    /\ WF_vars(DrainNext)
    /\ WF_vars(JoinThread)

MeterInit == InitPool(1..MaxThreads, {OnlyGate}, {50}, "idle")

MeterNext ==
    \/ Send
    \/ ResetMeter
    \/ \E w \in Workers : WorkerStep(w, MeterBank)

\* The workers of a pool charging one shared meter.
MeterSpec == MeterInit /\ [][MeterNext]_vars

\* One thread that calls execute_batch on one batch after the other.
BatchInit == InitPool({1}, FeatureSets, MeterCaps, "direct")

BatchNext ==
    \/ \E w \in Workers, n \in 0..MaxBatch : DirectCall(w, n)
    \/ \E w \in Workers : ExecuteBatchStep(w, AnyBank)
    \/ ResetMeter

\* Sequential calls of execute_batch against one bank and one meter.
BatchSpec == BatchInit /\ [][BatchNext]_vars

\* A Tpu built and not yet joined; its replay pool plays no part.
TpuInit == InitPool({0}, {AllInactive}, {100}, "idle")

TpuNext ==
    \/ TpuJoinCall
    \/ DoJoinStage
    \/ DoJoinQuic
    \/ DoJoinBroadcast
    \/ HelperSend
    \/ Tick
    \/ TpuJoinTimeout

\* Tpu::join and the thread it spawns.
TpuSpec == TpuInit /\ [][TpuNext]_vars

\* Tpu::join with time passing and a caller that is scheduled; the stages
\* being joined may never end.
TpuFairSpec ==
    /\ TpuSpec
    /\ WF_vars(Tick)
    /\ WF_vars(TpuJoinTimeout)
    /\ WF_vars(HelperSend)

NetNext ==
    \/ \E socket \in Sockets : Ingress(socket)
    \/ MevIntercept
    \/ MevFromRemote
    \/ FindPacketSenderStake
    \/ VoteFindPacketSenderStake
    \/ SigVerify
    \/ VoteSigVerify
    \/ \E r \in DOMAIN BankingStageReceivers : BankingRecv(r)

\* The packet channels of a running Tpu.
NetSpec == TpuInit /\ [][NetNext]_vars

WireNext ==
    \/ WireRecv
    \/ Lower
    \/ Serialize
    \/ WireDone

\* Wire packets being lowered, one after the other.
WireSpec == TpuInit /\ [][WireNext]_vars

(* ------------------------------- claims -------------------------------- *)

\* The number of entries of the sequence q that carry idx i.
CountIdx(q, i) == Cardinality({k \in 1..Len(q) : q[k].idx = i})

\* The number of threads that hold request i: received, response not yet sent.
HeldBy(i) ==
    Cardinality({w \in Workers : /\ pc[w] \in {"execute", "costcap", "votes", "datasize",
                                               "callback", "respond"}
                                 /\ cur[w].idx = i})

\* Where request i is: queued, held, answered in the channel, in the list a
\* recv_and_drain call is building, or handed to the owner.
Copies(i) ==
    CountIdx(reqQ, i) + HeldBy(i) + CountIdx(respQ, i) + CountIdx(results, i)
        + received[i]

IsPrefix(p, q) == Len(p) <= Len(q) /\ \A k \in 1..Len(p) : p[k] = q[k]

\* C1: under fair scheduling of the workers and an owner that keeps calling
\* recv_and_drain, every request send() has accepted is eventually in a list
\* recv_and_drain returned, unless the owner drops the handle first.
C1_ReplayHandleLiveness ==
    \A i \in 1..MaxRequests : (sent >= i) ~> (received[i] >= 1 \/ ~senderAlive)

\* C1 witness: with two workers, both requests sent have been handed to the
\* owner of a live handle.
C1_Witness ==
    /\ numThreads = 2
    /\ sent = 2
    /\ senderAlive
    /\ \A i \in 1..2 : received[i] = 1

\* C2: every request sent is at exactly one place (queued, held by one worker,
\* answered once under its own idx) while the response receiver is alive, and
\* never at more than one; no idx that was not sent is answered, and the
\* responses never outnumber the requests sent.
C2_OneResponsePerRequest ==
    /\ \A i \in 1..MaxRequests :
          /\ i > sent => Copies(i) = 0
          /\ i <= sent => Copies(i) <= 1
          /\ (i <= sent /\ receiverAlive) => Copies(i) = 1
          /\ received[i] <= 1
    /\ \A k \in 1..Len(respQ) : respQ[k].idx \in 1..sent
    /\ \A k \in 1..Len(results) : results[k].idx \in 1..sent
    /\ Len(respQ) + Len(results) + Cardinality({i \in 1..MaxRequests : received[i] > 0})
           <= sent

\* C2 witness: two workers hold one request each while the owner has sent both.
C2_Witness ==
    /\ numThreads = 2
    /\ sent = 2
    /\ pc[1] = "respond"
    /\ pc[2] = "respond"
    /\ cur[1].idx # cur[2].idx

\* What C3 says of one step of a recv_and_drain call.
RecvAndDrainStep ==
    /\ (opc = "idle" /\ opc' = "drain") =>
           /\ respQ # <<>>
           /\ results' = <<Head(respQ)>>
           /\ respQ' = Tail(respQ)
    /\ (opc = "drain" /\ opc' = "drain" /\ results' # results) =>
           /\ respQ # <<>>
           /\ results' = Append(results, Head(respQ))
           /\ respQ' = Tail(respQ)
    /\ (opc = "drain" /\ opc' = "idle") =>
           /\ respQ = <<>>
           /\ results # <<>>
           /\ IsPrefix(<<results[1]>> \o queuedAtRecv, results)
           /\ lastRet' = "Ok"
           /\ received' = Handed(received, results)
    /\ (lastRet' = "ChannelClosed" /\ lastRet # "ChannelClosed") =>
           /\ respQ = <<>>
           /\ ResponseSenders = {}
           /\ opc' = "idle"

\* C3: a recv_and_drain call takes the head of the response channel first and
\* then one head after the other; it returns only when it found the channel
\* empty, with a non-empty list that starts with the first response followed by
\* all that were queued when it was received; it returns the channel-closed
\* error only on an empty channel no worker holds a sender of.
C3_RecvAndDrain ==
    /\ [](opc = "drain" => results # <<>>)
    /\ [][RecvAndDrainStep]_vars

\* C3 witness: one call has taken a first response and one queued behind it.
C3_Witness ==
    /\ opc = "drain"
    /\ Len(results) = 2
    /\ Len(queuedAtRecv) = 1
    /\ respQ = <<>>

\* The remaining capacities the accumulate calls since the last reset returned
\* are non-negative and non-increasing, and none follows a 0 with more.
RemainingNonIncreasing ==
    /\ \A k \in 1..Len(meterLog) : meterLog[k].remaining >= 0
    /\ \A k \in 1..Len(meterLog), j \in 1..Len(meterLog) :
          k < j => /\ meterLog[j].remaining <= meterLog[k].remaining
                   /\ meterLog[k].remaining = 0 => meterLog[j].remaining = 0

\* Without a reset, a step never lowers the meter's counter of executed units.
CounterNeverDecreases ==
    resets' = resets => meter'.accumulated_cost >= meter.accumulated_cost

\* C4: for the accumulate calls the workers make on one meter, in any
\* interleaving and without a reset in between, the counter of executed units
\* never decreases, the returned remaining values never increase, and after a
\* returned 0 every later returned remaining is 0.
C4_MonotoneCostMeter ==
    /\ []RemainingNonIncreasing
    /\ [][CounterNeverDecreases]_vars

\* C4 witness: of two workers, the one that received the second request charged
\* the meter first and got capacity left; the other then got 0.
C4_Witness ==
    /\ numThreads = 2
    /\ Len(meterLog) = 2
    /\ meterLog[1].remaining > 0
    /\ meterLog[2].remaining = 0
    /\ cur[1].idx = 1
    /\ cur[1].remaining = 0
    /\ cur[2].idx = 2
    /\ cur[2].remaining > 0

\* S2 of the specification: requests of 60, 30 and 20 units on a meter of 100.
ScenarioUnits == <<60, 30, 20>>

ScenarioRemaining == <<40, 10, 0>>

\* The accumulate calls since the meter was built or reset are the first ones
\* of scenario S2.
InScenario ==
    /\ features.gate_large_block
    /\ meter.capacity = 100
    /\ Len(meterLog) \in 1..3
    /\ \A k \in 1..Len(meterLog) : meterLog[k].units = ScenarioUnits[k]

\* C5: with gate_large_block active, execute_batch returns
\* WouldExceedMaxBlockCostLimit when the remaining capacity returned for its
\* units is 0, and goes on to the later checks, never returning that error, when
\* it is greater than 0; on a meter of 100, calls of 60, 30 and 20 units get
\* remaining 40, 10, 0 and results Ok, Ok, WouldExceedMaxBlockCostLimit.
C5_CostCapSentinel ==
    /\ \A w \in Workers :
          /\ (pc[w] = "callback" /\ cur[w].remaining = 0) =>
                 cur[w].result = CostLimitErr
          /\ (pc[w] = "callback" /\ cur[w].remaining # 0) =>
                 cur[w].result # CostLimitErr
          /\ (pc[w] \in {"votes", "datasize"} /\ features.gate_large_block) =>
                 cur[w].remaining > 0
          /\ (pc[w] \in {"votes", "datasize", "callback"}) =>
                 (features.gate_large_block <=> cur[w].remaining >= 0)
    /\ InScenario =>
          /\ \A k \in 1..Len(meterLog) : meterLog[k].remaining = ScenarioRemaining[k]
          /\ \A w \in Workers :
                (pc[w] = "callback" /\ cur[w].remaining = ScenarioRemaining[Len(meterLog)]) =>
                    IF Len(meterLog) = 3
                    THEN cur[w].result = CostLimitErr
                    ELSE (/\ dataDelta <= MAX_ACCOUNT_DATA_BLOCK_LEN
                          /\ \A k \in 1..cur[w].ntx :
                                cur[w].tx_results[k] = [exec |-> OkResult, fee |-> OkResult])
                         => cur[w].result = OkResult

\* C5 witness: the third call of scenario S2 has returned the cost-cap error.
C5_Witness ==
    /\ InScenario
    /\ Len(meterLog) = 3
    /\ calls = 3
    /\ resets = 0
    /\ pc[1] = "callback"
    /\ cur[1].remaining = 0
    /\ cur[1].result = CostLimitErr

\* What C6 says of the step in which a call consults the meter.
StickyStep ==
    \A w \in Workers :
       (/\ pc[w] = "costcap"
        /\ pc'[w] # "costcap"
        /\ features.gate_large_block
        /\ meterLog # <<>>
        /\ meterLog[Len(meterLog)].remaining = 0
        /\ resets' = resets) =>
           /\ pc'[w] = "callback"
           /\ cur'[w].result = CostLimitErr
           /\ cur'[w].remaining = 0

\* C6: once an accumulate call has returned remaining 0, every later call of
\* execute_batch on the same meter returns WouldExceedMaxBlockCostLimit,
\* whatever its units, its transactions' results and the accounts-data delta,
\* as long as the owner has not reset the meter.
C6_StickyCostCap == [][StickyStep]_vars

\* C6 witness: after a call that exhausted the meter, a call of a batch that
\* used no units and whose transaction succeeded has returned the error.
C6_Witness ==
    /\ Len(meterLog) = 2
    /\ meterLog[1].remaining = 0
    /\ meterLog[2].units = 0
    /\ pc[1] = "callback"
    /\ cur[1].ntx = 1
    /\ cur[1].tx_results[1] = [exec |-> OkResult, fee |-> OkResult]
    /\ cur[1].result = CostLimitErr

\* A cap check fails the call of thread w: the cost cap, the accounts-data
\* block limit or the accounts-data total limit.
CapCheckFails(w) ==
    \/ features.gate_large_block /\ cur[w].remaining = 0
    \/ features.cap_accounts_data_size_per_block /\ dataDelta > MAX_ACCOUNT_DATA_BLOCK_LEN
    \/ /\ features.cap_accounts_data_len
       /\ \E k \in 1..cur[w].ntx : cur[w].tx_results[k].exec = MaxDataErr

\* The indices of the batch of thread w whose fee-collection result is an Err.
FeeErrors(w) == {k \in 1..cur[w].ntx : cur[w].tx_results[k].fee # OkResult}

\* C7: when no cap check fails, execute_batch returns the fee-collection error
\* of the smallest index that holds one, and Ok when none does.
C7_FirstErrorStability ==
    \A w \in Workers :
       (pc[w] = "callback" /\ ~CapCheckFails(w)) =>
           IF FeeErrors(w) = {}
           THEN cur[w].result = OkResult
           ELSE \E k \in FeeErrors(w) :
                   /\ \A j \in FeeErrors(w) : k <= j
                   /\ cur[w].result = cur[w].tx_results[k].fee

\* C7 witness: a batch of two transactions with two different errors has
\* returned the first one.
C7_Witness ==
    /\ pc[1] = "callback"
    /\ cur[1].ntx = 2
    /\ cur[1].tx_results[1].fee = "AccountNotFound"
    /\ cur[1].tx_results[2].fee = "BlockhashNotFound"
    /\ cur[1].result = "AccountNotFound"

\* C8 as stated: with cap_accounts_data_size_per_block active and a delta over
\* the block limit, execute_batch returns WouldExceedAccountDataBlockLimit
\* whatever the other flags and the meter's state.
C8_DataBlockCapAlways ==
    \A w \in Workers :
       (/\ pc[w] = "callback"
        /\ features.cap_accounts_data_size_per_block
        /\ dataDelta > MAX_ACCOUNT_DATA_BLOCK_LEN) =>
           cur[w].result = DataBlockErr

\* C8, amended: with cap_accounts_data_size_per_block active and a delta over
\* the block limit, execute_batch returns WouldExceedAccountDataBlockLimit
\* whatever the execution results and the other accounts-data flag, unless
\* gate_large_block is active and the meter returned remaining 0: the call
\* then returns WouldExceedMaxBlockCostLimit before it looks at the delta.
C8_DataBlockCap ==
    \A w \in Workers :
       (/\ pc[w] = "callback"
        /\ features.cap_accounts_data_size_per_block
        /\ dataDelta > MAX_ACCOUNT_DATA_BLOCK_LEN) =>
           IF features.gate_large_block /\ cur[w].remaining = 0
           THEN cur[w].result = CostLimitErr
           ELSE cur[w].result = DataBlockErr

\* C8 witness: a call whose meter has capacity left returns the block-limit
\* error although a transaction exceeded the total limit and another failed
\* to load.
C8_Witness ==
    /\ features = AllActive
    /\ dataDelta > MAX_ACCOUNT_DATA_BLOCK_LEN
    /\ pc[1] = "callback"
    /\ cur[1].remaining > 0
    /\ cur[1].ntx = 2
    /\ cur[1].tx_results[1].exec = MaxDataErr
    /\ cur[1].tx_results[2].fee = "AccountNotFound"
    /\ cur[1].result = DataBlockErr

\* The results execute_batch returns.
BatchResults == {OkResult, CostLimitErr, DataBlockErr, MaxDataErr} \cup LoadErrors

\* What C9 says of one step of worker w.
ErrorNotFatal(w) ==
    /\ (pc[w] \in {"execute", "costcap", "votes", "datasize", "callback"}) =>
           pc'[w] # "terminated"
    /\ (pc[w] = "callback" /\ pc'[w] # "callback") =>
           /\ cur[w].result \in BatchResults
           /\ pc'[w] = "respond"
           /\ cur'[w].result = cur[w].result
           /\ cur'[w].idx = cur[w].idx
    /\ (pc[w] = "respond" /\ pc'[w] # "respond" /\ receiverAlive) =>
           /\ pc'[w] = "idle"
           /\ respQ' = Append(respQ, [result |-> cur[w].result,
                                      timing |-> cur[w].timing,
                                      idx |-> cur[w].idx])
    /\ (pc[w] = "idle" /\ pc'[w] # "idle") => pc'[w] = "recv"
    /\ (pc[w] # "terminated" /\ pc'[w] = "terminated") =>
           \/ pc[w] = "recv" /\ reqQ = <<>> /\ ~senderAlive
           \/ pc[w] = "respond" /\ ~receiverAlive

\* C9: whatever execute_batch returned, the worker puts it in the response of
\* that request, sends it and goes back to receiving; a worker ends only on a
\* request channel that is empty with its sender dropped, or on a response
\* send that failed because the receiver is dropped.
C9_ErrorNotFatal == [][\A w \in Workers : ErrorNotFatal(w)]_vars

\* C9 witness: one worker has answered a request with the accounts-data error
\* and the next with the cost-cap error, and is receiving again.
C9_Witness ==
    /\ numThreads = 1
    /\ Len(respQ) = 2
    /\ respQ[1].result = DataBlockErr
    /\ respQ[2].result = CostLimitErr
    /\ pc[1] = "recv"

\* The state of the worker loop a thread is in.
WorkerState(at) ==
    CASE at = "idle" -> "Idle"
      [] at = "recv" -> "Receiving"
      [] at \in {"execute", "costcap", "votes", "datasize", "callback"} -> "Executing"
      [] at = "respond" -> "Responding"
      [] at = "terminated" -> "Terminating"

\* What C10 says of one step of worker w.
WorkerCycle(w) ==
    LET from == WorkerState(pc[w])
        to == WorkerState(pc'[w])
    IN  from # to =>
          \/ from = "Idle" /\ to = "Receiving"
          \/ /\ from = "Receiving"
             /\ to = "Executing"
             /\ reqQ # <<>>
             /\ cur'[w].idx = Head(reqQ).idx
          \/ /\ from = "Receiving"
             /\ to = "Terminating"
             /\ reqQ = <<>>
             /\ ~senderAlive
          \/ from = "Executing" /\ to = "Responding" /\ cur'[w].idx = cur[w].idx
          \/ /\ from = "Responding"
             /\ to = "Idle"
             /\ receiverAlive
             /\ Len(respQ') = Len(respQ) + 1
             /\ respQ'[Len(respQ')].idx = cur[w].idx
          \/ /\ from = "Responding"
             /\ to = "Terminating"
             /\ ~receiverAlive

\* C10: a worker moves Idle -> Receiving -> Executing -> Responding -> Idle
\* and nowhere else, except Receiving -> Terminating on a closed request
\* channel and Responding -> Terminating on a failed response send;
\* Terminating is never left, and the request a worker executes is the one it
\* answers before it receives another.
C10_WorkerStateMachine == [][\A w \in Workers : WorkerCycle(w)]_vars

\* C10 witness: of two workers, one is executing the second request while the
\* other, having answered the first, has ended on the closed request channel.
C10_Witness ==
    /\ numThreads = 2
    /\ pc[1] = "terminated"
    /\ pc[2] = "callback"
    /\ cur[2].idx = 2
    /\ ~senderAlive
    /\ receiverAlive
    /\ Len(respQ) = 1
    /\ respQ[1].idx = 1

\* The ReplayerHandle has been dropped: both of its channel ends are gone.
HandleDropped == ~senderAlive /\ ~receiverAlive

AllTerminated == \A w \in Workers : pc[w] = "terminated"

JoinReturned == joinI = numThreads + 1

\* C11 as stated: while the handle's request sender is alive and its response
\* receiver is open, no worker terminates and join does not return.
C11_JoinWaitsForDrop ==
    (senderAlive /\ receiverAlive) =>
        /\ \A w \in Workers : pc[w] # "terminated"
        /\ ~JoinReturned

\* C11, amended: once the handle is dropped every worker eventually terminates,
\* requests still queued or not, and a join that was called returns; join
\* returns only when every worker has terminated; while the handle's sender is
\* alive and its receiver open no worker terminates, and the join of a pool of
\* at least one thread does not return (the join of a pool of 0 threads
\* returns at once).
C11_JoinTerminates ==
    /\ [](JoinReturned => AllTerminated)
    /\ []((senderAlive /\ receiverAlive) => \A w \in Workers : pc[w] # "terminated")
    /\ []((senderAlive /\ receiverAlive /\ numThreads >= 1) => ~JoinReturned)
    /\ HandleDropped ~> AllTerminated
    /\ (HandleDropped /\ joinI >= 1) ~> JoinReturned

\* C11 witness: join has returned from a pool whose worker ended on a failed
\* response send with a request still queued.
C11_Witness ==
    /\ numThreads = 1
    /\ HandleDropped
    /\ JoinReturned
    /\ reqQ # <<>>

\* What C12 says of a step in which send() returned.
SendReturns ==
    (sent' # sent \/ sendResult' # sendResult) =>
        IF RequestReceivers # {}
        THEN /\ sendResult' = "Ok"
             /\ sent' = sent + 1
             /\ reqQ' = Append(reqQ, [idx |-> sent', ntx |-> 1])
        ELSE /\ sendResult' = "ChannelClosed"
             /\ sent' = sent
             /\ reqQ' = reqQ

\* C12: send() can return whatever the length of the request queue; it
\* returns Ok with the request appended to the queue when a worker holds the
\* request receiver, and the channel-closed error with the queue unchanged
\* when none does (every worker terminated, or num_threads = 0).
C12_SendNeverBlocks ==
    /\ []((senderAlive /\ sent < MaxRequests) => ENABLED Send)
    /\ [][SendReturns]_vars
    /\ [](sendResult = "ChannelClosed" =>
             (numThreads = 0 \/ \A w \in Workers : pc[w] = "terminated"))

\* C12 witness: a second send has returned Ok while the first request was
\* still in the queue.
C12_Witness ==
    /\ numThreads >= 1
    /\ Len(reqQ) = 2
    /\ sent = 2
    /\ sendResult = "Ok"

\* What C13 says of the step in which Tpu::join returns.
TpuJoinReturns ==
    (tjPc = "waiting" /\ tjPc' = "returned") =>
        /\ tjRet' = "Ok"
        /\ clock <= TPU_THREADS_JOIN_TIMEOUT_SECONDS
        /\ \/ helperPc = "send" /\ helperPc' = "done" /\ ~timedOut'
           \/ clock = TPU_THREADS_JOIN_TIMEOUT_SECONDS /\ timedOut'

\* C13: a call of Tpu::join returns Ok to its caller, at the hand-over of the
\* thread that has finished do_join or when 10 seconds have passed, whichever
\* comes first, also when a stage being joined never ends; the caller never
\* waits longer than the ceiling.
C13_BoundedShutdown ==
    /\ (tjPc = "waiting") ~> (tjPc = "returned")
    /\ [](tjPc = "returned" => tjRet = "Ok")
    /\ [](clock <= TPU_THREADS_JOIN_TIMEOUT_SECONDS)
    /\ [][TpuJoinReturns]_vars

\* C13 witness: Tpu::join has returned on the ceiling while do_join was still
\* waiting for the first stage.
C13_Witness ==
    /\ tjPc = "returned"
    /\ tjRet = "Ok"
    /\ timedOut
    /\ helperPc = "do_join"
    /\ joined = <<>>

\* The threads do_join has joined so far.
Joined == {joined[k] : k \in 1..Len(joined)}

PipelineStageSet == {PipelineStages[k] : k \in 1..Len(PipelineStages)}

\* The place of thread t in the order of the joins made.
JoinedAt(t) == CHOOSE k \in 1..Len(joined) : joined[k] = t

\* The joins made so far are in the order C14 gives: no thread twice, the
\* QUIC listener after every pipeline stage, the broadcast stage after the
\* QUIC listener.
JoinedInOrder ==
    /\ \A j, k \in 1..Len(joined) : joined[j] = joined[k] => j = k
    /\ "tpu_quic_t" \in Joined => PipelineStageSet \subseteq Joined
    /\ "broadcast_stage" \in Joined =>
           /\ "tpu_quic_t" \in Joined
           /\ JoinedAt("tpu_quic_t") < JoinedAt("broadcast_stage")
           /\ JoinedAt("broadcast_stage") = Len(joined)

\* C14 as stated: the pipeline stages are joined first, the QUIC listener
\* after all of them and the broadcast stage last, and a do_join in which the
\* joins before the broadcast stage's have all returned joins the broadcast
\* stage before it returns.
C14_ShutdownOrdering ==
    /\ JoinedInOrder
    /\ (djRet # "None" /\ PipelineStageSet \cup {"tpu_quic_t"} \subseteq Joined) =>
           "broadcast_stage" \in Joined

\* C14 failing state: every pipeline stage has been joined without error, the
\* join of the QUIC listener has returned Err, and do_join has returned
\* without joining the broadcast stage.
C14_Witness ==
    /\ Len(joined) = Len(PipelineStages) + 1
    /\ \A k \in 1..Len(PipelineStages) : djResults[k] = "Ok"
    /\ djResults[Len(joined)] = "Err"
    /\ djRet = "Err"
    /\ helperPc \in {"send", "done", "panicked"}
    /\ "broadcast_stage" \notin Joined

\* The stages that have handled packet p.
Via(p) == {p.via[k] : k \in 1..Len(p.via)}

\* The packets in channel ch.
InChannel(ch) == {chan[ch][k] : k \in 1..Len(chan[ch])}

\* The packets the banking stage has taken from receiver r.
Banked(r) == {banked[r][k] : k \in 1..Len(banked[r])}

\* The stages that hold a sender of channel ch.
SenderHolders(ch) ==
    {SocketReader(socket) : socket \in {k \in Sockets : SocketSender(k) = ch}}
    \cup (IF ch \in {MevStageWiring.verified_sender, MevStageWiring.packet_sender}
          THEN {"mev_stage"} ELSE {})
    \cup (IF ch = FindPacketSenderStakeWiring.sender
          THEN {"find_packet_sender_stake_stage"} ELSE {})
    \cup (IF ch = VoteFindPacketSenderStakeWiring.sender
          THEN {"vote_find_packet_sender_stake_stage"} ELSE {})
    \cup (IF ch = SigVerifyWiring.sender THEN {"sigverify_stage"} ELSE {})
    \cup (IF ch = VoteSigVerifyWiring.sender THEN {"vote_sigverify_stage"} ELSE {})

\* C15: every packet in the verified-TPU-vote channel, and every packet the
\* banking stage took from it, has SIMPLE_VOTE_TX set, came in by the vote
\* socket and went through the vote lane's stages only; the vote signature
\* verifier is the channel's only producer and rejects non-votes.
C15_LanePurity ==
    /\ SenderHolders("verified_tpu_vote_packets") = {"vote_sigverify_stage"}
    /\ BankingStageReceivers.tpu_verified_vote_receiver = "verified_tpu_vote_packets"
    /\ \A p \in InChannel("verified_tpu_vote_packets")
                   \cup Banked("tpu_verified_vote_receiver") :
          /\ p.simple_vote_tx
          /\ p.origin = "vote"
          /\ p.via = <<"fetch_stage", "vote_find_packet_sender_stake_stage",
                       "vote_sigverify_stage">>

\* C15 witness: of a vote and a non-vote that came in by the vote socket, both
\* with good signatures, the vote verifier has discarded the non-vote and the
\* banking stage has received the vote; nothing else is left anywhere.
C15_Witness ==
    /\ ingested = 2
    /\ Len(discarded) = 1
    /\ discarded[1].stage = "vote_sigverify_stage"
    /\ discarded[1].packet.sig_ok
    /\ ~discarded[1].packet.simple_vote_tx
    /\ Len(banked["tpu_verified_vote_receiver"]) = 1
    /\ banked["tpu_verified_vote_receiver"][1].simple_vote_tx
    /\ banked["verified_receiver"] = <<>>
    /\ \A ch \in PacketChannels : chan[ch] = <<>>

\* Every packet the pipeline holds or has held: in a channel, received by the
\* banking stage, or discarded by a stage.
AllPackets ==
    UNION {InChannel(ch) : ch \in PacketChannels}
    \cup UNION {Banked(r) : r \in DOMAIN BankingStageReceivers}
    \cup {discarded[k].packet : k \in 1..Len(discarded)}

\* The packets that have reached the stake annotator of the main lane or the
\* main signature verifier: those waiting at them and those they have handled.
ReachedMainLane ==
    InChannel(FindPacketSenderStakeWiring.receiver)
    \cup InChannel(SigVerifyWiring.receiver)
    \cup {p \in AllPackets : Via(p) \cap {"find_packet_sender_stake_stage",
                                          "sigverify_stage"} # {}}

\* C19: the QUIC listener and the non-vote fetch sockets send into the
\* packet-intercept channel only; the auction interceptor alone holds the main
\* packet channel's sender; every packet that reaches the main lane's stake
\* annotator or signature verifier has passed through the interceptor, and no
\* packet of the vote socket ever has.
C19_InterceptionRouting ==
    /\ \A socket \in Sockets \ {"vote"} : SocketSender(socket) = "packet_intercept"
    /\ SenderHolders("packet") = {"mev_stage"}
    /\ \A p \in InChannel("packet") \cup ReachedMainLane :
          /\ "mev_stage" \in Via(p)
          /\ p.origin # "vote"
    /\ \A p \in AllPackets : p.origin = "vote" => "mev_stage" \notin Via(p)

\* C19 witness: the banking stage has received a QUIC packet that went
\* through the interceptor, the stake annotator and the main verifier, and a
\* vote-socket packet that went through the vote lane.
C19_Witness ==
    /\ \E p \in Banked("verified_receiver") :
          /\ p.origin = "transactions_quic"
          /\ p.via = <<"tpu_quic_t", "mev_stage", "find_packet_sender_stake_stage",
                       "sigverify_stage">>
    /\ \E p \in Banked("tpu_verified_vote_receiver") : p.origin = "vote"

\* The wire flag named by a Packet flag.
WireFlag(flags, flag) ==
    CASE flag = "SIMPLE_VOTE_TX" -> flags.simple_vote_tx
      [] flag = "FORWARDED" -> flags.forwarded
      [] flag = "TRACER_TX" -> flags.tracer_tx
      [] flag = "REPAIR" -> flags.repair
      [] OTHER -> FALSE

Lowered == wirePc \in {"lowered", "serialized"}

\* C16: the Packet a wire packet is lowered to has PACKET_DATA_SIZE bytes, of
\* which the first min(|data|, PACKET_DATA_SIZE) are the wire data and the
\* rest are zero; its address is the parsed literal, or 0.0.0.0 when the
\* literal does not parse (or there is no meta); each of SIMPLE_VOTE_TX,
\* FORWARDED, TRACER_TX, REPAIR is set exactly when the wire boolean is true,
\* and no other flag is set.
C16_Lowering ==
    Lowered =>
       LET p == protoIn[1]
           packet == packetOut[1]
           n == IF Len(p.data) < PACKET_DATA_SIZE THEN Len(p.data) ELSE PACKET_DATA_SIZE
           parsed == IF IsSome(p.meta) THEN ParseIpAddr(p.meta[1].addr) ELSE <<>>
       IN  /\ DOMAIN packet.data = 1..PACKET_DATA_SIZE
           /\ \A i \in 1..n : packet.data[i] = p.data[i]
           /\ \A i \in (n + 1)..PACKET_DATA_SIZE : packet.data[i] = 0
           /\ packet.meta.addr = IF IsSome(parsed) THEN parsed[1] ELSE V4(0, 0, 0, 0)
           /\ \A flag \in {"SIMPLE_VOTE_TX", "FORWARDED", "TRACER_TX", "REPAIR"} :
                 flag \in packet.meta.flags <=>
                    /\ IsSome(p.meta)
                    /\ IsSome(p.meta[1].flags)
                    /\ WireFlag(p.meta[1].flags[1], flag)
           /\ packet.meta.flags \subseteq
                 {"SIMPLE_VOTE_TX", "FORWARDED", "TRACER_TX", "REPAIR"}

\* C16 witness: a wire packet with one byte too many, an address that does
\* not parse and the forwarded flag alone has been lowered: the payload is
\* cut, the address is 0.0.0.0 and FORWARDED is the only flag.
C16_Witness ==
    /\ wirePc = "lowered"
    /\ Len(protoIn[1].data) = PACKET_DATA_SIZE + 1
    /\ IsSome(protoIn[1].meta)
    /\ protoIn[1].meta[1].addr = "localhost"
    /\ packetOut[1].meta.addr = UNKNOWN_IP
    /\ packetOut[1].meta.flags = {"FORWARDED"}

\* The logical content of a wire packet: its data padded with zeros to
\* PACKET_DATA_SIZE, and its size, address, port and flags, an absent meta
\* or flags standing for zero, the unspecified address and no flag. An
\* address literal that parses stands for the address it names.
LogicalContent(p) ==
    LET hasMeta == IsSome(p.meta)
        hasFlags == hasMeta /\ IsSome(p.meta[1].flags)
        parsed == IF hasMeta THEN ParseIpAddr(p.meta[1].addr) ELSE <<V4(0, 0, 0, 0)>>
    IN  [data |-> [i \in 1..PACKET_DATA_SIZE |->
                      IF i <= Len(p.data) THEN p.data[i] ELSE 0],
         size |-> IF hasMeta THEN p.meta[1].size ELSE Zero(4),
         addr |-> IF IsSome(parsed) THEN parsed ELSE <<p.meta[1].addr>>,
         port |-> IF hasMeta THEN p.meta[1].port ELSE Zero(2),
         flags |-> {flag \in {"SIMPLE_VOTE_TX", "FORWARDED", "TRACER_TX", "REPAIR"} :
                      hasFlags /\ WireFlag(p.meta[1].flags[1], flag)}]

\* C17: a wire packet whose data is no longer than PACKET_DATA_SIZE, lowered
\* and serialized back, has the logical content it had.
C17_ConversionIdempotence ==
    (wirePc = "serialized" /\ Len(protoIn[1].data) <= PACKET_DATA_SIZE) =>
       LogicalContent(protoBack[1]) = LogicalContent(protoIn[1])

\* C17 witness: a wire packet of PACKET_DATA_SIZE bytes with an address that
\* parses and port 65536 has been lowered to a Packet of port 0 and come back
\* with port 0.
C17_Witness ==
    /\ wirePc = "serialized"
    /\ Len(protoIn[1].data) = PACKET_DATA_SIZE
    /\ IsSome(protoIn[1].meta)
    /\ protoIn[1].meta[1].addr = "10.0.0.1"
    /\ protoIn[1].meta[1].port = <<0, 1>>
    /\ packetOut[1].meta.port = <<0>>
    /\ protoBack[1].meta[1].port = <<0, 0>>
    /\ LogicalContent(protoBack[1]) # LogicalContent(protoIn[1])

\* The round trip does hold for the packets whose port fits 16 bits and whose
\* address literal parses (or that have no meta).
RoundTripWithinRange ==
    (/\ wirePc = "serialized"
     /\ Len(protoIn[1].data) <= PACKET_DATA_SIZE
     /\ IsSome(protoIn[1].meta) =>
           /\ protoIn[1].meta[1].port[2] = 0
           /\ IsSome(ParseIpAddr(protoIn[1].meta[1].addr)))
    => LogicalContent(protoBack[1]) = LogicalContent(protoIn[1])

\* What a step may do to the entry-callback count of worker w.
CallbackStep(w) ==
    /\ (pc[w] = "callback" /\ pc'[w] # "callback") =>
          /\ pc'[w] = "respond"
          /\ cur[w].result # "None"
          /\ cur'[w].callbacks = IF cur[w].entry_callback THEN 1 ELSE 0
          /\ cur'[w].result = cur[w].result
          /\ cur'[w].idx = cur[w].idx
          /\ respQ' = respQ
    /\ cur'[w].callbacks > cur[w].callbacks => pc[w] = "callback"
    /\ (pc[w] = "respond" /\ pc'[w] # "respond") =>
          /\ cur[w].callbacks <= 1
          /\ receiverAlive =>
                respQ' = Append(respQ, MakeResponse(cur[w].result, cur[w].timing,
                                                    cur[w].idx))
    /\ Len(respQ') > Len(respQ) => \E v \in Workers : pc[v] = "respond"

CallbackSteps == \A w \in Workers : CallbackStep(w)

\* C18: the entry callback of a request is called by the worker that has the
\* request, in the step between the return of execute_batch and the sending of
\* the response: once when the request carries a callback, whatever the
\* result, and not at all when it carries none; no callback has been called
\* for a request that is still being executed.
C18_EntryCallbackOrdering ==
    /\ [][CallbackSteps]_vars
    /\ [](\A w \in Workers :
             /\ pc[w] # "respond" => cur[w].callbacks = 0
             /\ pc[w] = "callback" => cur[w].result # "None"
             /\ pc[w] \in {"execute", "costcap", "votes", "datasize"} =>
                   cur[w].result = "None")

\* C18 witness: a worker is about to send the response to a request that
\* failed, and has called the request's entry callback once.
C18_Witness ==
    \E w \in Workers :
       /\ pc[w] = "respond"
       /\ cur[w].callbacks = 1
       /\ cur[w].result \notin {OkResult, "None"}

\* The accounts-data-size check of the call worker w is in fails.
DataSizeFails(w) ==
    check_accounts_data_size(features, dataDelta, execution_results(cur[w])) # OkResult

\* What a step of the execute_batch call of worker w does, in order.
ShortCircuitStep(w) ==
    /\ (pc[w] = "execute" /\ pc'[w] # "execute") =>
          /\ pc'[w] = "costcap"
          /\ Len(cur'[w].tx_results) = cur[w].ntx
          /\ meter' = meter
          /\ meterLog' = meterLog
          /\ cur'[w].result = "None"
    /\ (pc[w] = "costcap" /\ pc'[w] # "costcap") =>
          /\ features.gate_large_block =>
                /\ Len(meterLog') = Len(meterLog) + 1
                /\ meter' = accumulate(meter, meterLog'[Len(meterLog')].units)
                /\ cur'[w].remaining = RemainingCap(meter')
          /\ ~features.gate_large_block => meter' = meter /\ meterLog' = meterLog
          /\ IF features.gate_large_block /\ RemainingCap(meter') = 0
             THEN /\ pc'[w] = "callback"
                  /\ cur'[w].result = CostLimitErr
                  /\ ~cur'[w].votesSent
                  /\ ~cur'[w].statusSent
             ELSE /\ pc'[w] = "votes"
                  /\ cur'[w].result = "None"
    /\ cur'[w].votesSent # cur[w].votesSent =>
          \/ pc[w] = "votes" /\ pc'[w] = "datasize" /\ cur'[w].votesSent
          \/ pc'[w] \in {"execute", "respond"} /\ ~cur'[w].votesSent
    /\ (pc'[w] = "datasize" /\ pc[w] # "datasize") => pc[w] = "votes"
    /\ (pc[w] = "datasize" /\ pc'[w] # "datasize") =>
          /\ pc'[w] = "callback"
          /\ cur'[w].votesSent = cur[w].votesSent
          /\ DataSizeFails(w) =>
                /\ cur'[w].result \in {DataBlockErr, MaxDataErr}
                /\ ~cur'[w].statusSent
    /\ (cur'[w].statusSent /\ ~cur[w].statusSent) =>
          /\ pc[w] = "datasize"
          /\ ~DataSizeFails(w)
          /\ features.gate_large_block => cur[w].remaining > 0

ShortCircuitSteps == \A w \in Workers : ShortCircuitStep(w)

\* C20: execute_batch loads, executes and commits the batch, then charges the
\* meter, then decides on the cost cap; a call the cost cap fails has sent no
\* vote and published no status batch; a call an accounts-data-size check
\* fails has been through the vote step and has published no status batch; a
\* status batch is published only by a call that passed every cap check.
C20_ShortCircuitOrder ==
    /\ [][ShortCircuitSteps]_vars
    /\ [](\A w \in Workers :
             /\ (cur[w].votesSent \/ cur[w].statusSent) => cur[w].result # CostLimitErr
             /\ cur[w].statusSent => cur[w].result \notin {DataBlockErr, MaxDataErr})

\* C20 witness: a call has come back with the accounts-data block-limit
\* error after sending a vote, with the meter charged and no status batch
\* published.
C20_Witness ==
    \E w \in Workers :
       /\ pc[w] = "callback"
       /\ features.gate_large_block
       /\ cur[w].result = DataBlockErr
       /\ cur[w].votesSent
       /\ ~cur[w].statusSent
       /\ cur[w].remaining > 0
       /\ meterLog # <<>>

\* The meter as its owner built or reset it: nothing charged.
MeterUntouched == meter.accumulated_cost = 0 /\ meterLog = <<>>

\* Some transaction of the call of worker w came back with
\* MaxAccountsDataSizeExceeded as its execution result.
HasMaxDataResult(w) ==
    \E k \in 1..Len(cur[w].tx_results) : cur[w].tx_results[k].exec = MaxDataErr

\* C21: with gate_large_block inactive the meter is never charged and no
\* call returns WouldExceedMaxBlockCostLimit; with
\* cap_accounts_data_size_per_block inactive no call returns
\* WouldExceedAccountDataBlockLimit; with cap_accounts_data_len inactive no
\* call returns MaxAccountsDataSizeExceeded, and a call with such an execution
\* result that no other check fails returns the first fee-collection error,
\* Ok when there is none.
C21_FeatureGating ==
    /\ ~features.gate_large_block =>
          /\ MeterUntouched
          /\ \A w \in Workers : cur[w].result # CostLimitErr /\ cur[w].remaining = -1
    /\ ~features.cap_accounts_data_size_per_block =>
          \A w \in Workers : cur[w].result # DataBlockErr
    /\ ~features.cap_accounts_data_len =>
          \A w \in Workers :
             /\ cur[w].result # MaxDataErr
             /\ (/\ pc[w] = "callback"
                 /\ HasMaxDataResult(w)
                 /\ cur[w].result \notin {CostLimitErr, DataBlockErr}) =>
                   cur[w].result = FirstErrorResult(fee_collection_results(cur[w]))

\* C21 witness: with no flag active, a call of 60 units against a meter of
\* capacity 50, with the data delta over the block limit and a
\* MaxAccountsDataSizeExceeded execution result, has returned Ok and left the
\* meter alone.
C21_Witness ==
    \E w \in Workers :
       /\ features = AllInactive
       /\ pc[w] = "callback"
       /\ meter.capacity = 50
       /\ aggregate_total_execution_units(cur[w].timing) = 60
       /\ dataDelta > MAX_ACCOUNT_DATA_BLOCK_LEN
       /\ HasMaxDataResult(w)
       /\ cur[w].result = OkResult
       /\ MeterUntouched

RECURSIVE ChargedUnits(_)
\* The units of the accumulate calls in `log`, added up.
ChargedUnits(log) ==
    IF log = <<>> THEN 0 ELSE log[1].units + ChargedUnits(Tail(log))

RECURSIVE RespondedUnits(_)
\* The execution units of the requests answered by `responses`, added up: a
\* response carries the timings of its request's execution.
RespondedUnits(responses) ==
    IF responses = <<>> THEN 0
    ELSE aggregate_total_execution_units(responses[1].timing)
         + RespondedUnits(Tail(responses))

\* Every request sent has been answered and no worker holds one.
AllComplete ==
    /\ sent > 0
    /\ reqQ = <<>>
    /\ Len(respQ) = sent
    /\ \A w \in Workers : pc[w] \in {"idle", "recv"}

\* C22: whatever the interleaving of the workers, the meter has counted
\* every accumulate call made since it was built or reset; when all requests
\* are answered and the meter was not reset, its remaining capacity is
\* max(0, capacity - sum of the requests' execution units), and when that sum
\* reaches the capacity some request was answered WouldExceedMaxBlockCostLimit.
C22_AtomicMetering ==
    /\ meter.accumulated_cost = ChargedUnits(meterLog)
    /\ \A k \in 1..Len(meterLog) :
          meterLog[k].remaining =
             saturating_sub(meter.capacity, ChargedUnits(SubSeq(meterLog, 1, k)))
    /\ (AllComplete /\ resets = 0) =>
          /\ Len(meterLog) = sent
          /\ RemainingCap(meter) =
                saturating_sub(meter.capacity, RespondedUnits(respQ))
          /\ RespondedUnits(respQ) >= meter.capacity =>
                \E k \in 1..Len(respQ) : respQ[k].result = CostLimitErr

\* C22 witness: two workers have answered two requests of 30 and 20 units
\* against a meter of capacity 50; the meter has nothing left and exactly
\* one request was answered WouldExceedMaxBlockCostLimit.
C22_Witness ==
    /\ numThreads = 2
    /\ AllComplete
    /\ resets = 0
    /\ sent = 2
    /\ {meterLog[1].units, meterLog[2].units} = {20, 30}
    /\ RemainingCap(meter) = 0
    /\ Cardinality({k \in 1..Len(respQ) : respQ[k].result = CostLimitErr}) = 1

\* The failure conditions of the call worker w has returned from.
CostCapBreached(w) == features.gate_large_block /\ cur[w].remaining = 0

BlockLimitExceeded ==
    /\ features.cap_accounts_data_size_per_block
    /\ dataDelta > MAX_ACCOUNT_DATA_BLOCK_LEN

TotalSizeExceeded(w) == features.cap_accounts_data_len /\ HasMaxDataResult(w)

HasFeeError(w) == FirstErrorResult(fee_collection_results(cur[w])) # OkResult

\* C23: a call that has returned returned WouldExceedMaxBlockCostLimit when
\* the cost cap was breached, whatever else holds; otherwise
\* WouldExceedAccountDataBlockLimit when the block limit was exceeded;
\* otherwise MaxAccountsDataSizeExceeded when an execution result carries it;
\* and the first fee-collection error (or Ok) only when none of the three
\* holds.
C23_ErrorPrecedence ==
    \A w \in Workers :
       pc[w] = "callback" =>
          cur[w].result =
             CASE CostCapBreached(w) -> CostLimitErr
               [] ~CostCapBreached(w) /\ BlockLimitExceeded -> DataBlockErr
               [] ~CostCapBreached(w) /\ ~BlockLimitExceeded /\ TotalSizeExceeded(w) ->
                     MaxDataErr
               [] OTHER -> FirstErrorResult(fee_collection_results(cur[w]))

\* C23 witness: a call for which all four failure conditions hold has
\* returned WouldExceedMaxBlockCostLimit.
C23_Witness ==
    \E w \in Workers :
       /\ pc[w] = "callback"
       /\ CostCapBreached(w)
       /\ BlockLimitExceeded
       /\ TotalSizeExceeded(w)
       /\ HasFeeError(w)
       /\ cur[w].result = CostLimitErr

\* A call for which the three lower conditions hold, the cost cap not being
\* breached, has returned WouldExceedAccountDataBlockLimit.
BlockLimitFirst ==
    \E w \in Workers :
       /\ pc[w] = "callback"
       /\ ~CostCapBreached(w)
       /\ BlockLimitExceeded
       /\ TotalSizeExceeded(w)
       /\ HasFeeError(w)
       /\ cur[w].result = DataBlockErr

RECURSIVE UnitsPerProgram(_)
\* The sum over the programs with count >= 1 of accumulated_units / count.
UnitsPerProgram(timings) ==
    IF timings = <<>> THEN 0
    ELSE (IF timings[1].count >= 1
          THEN timings[1].accumulated_units \div timings[1].count
          ELSE 0) + UnitsPerProgram(Tail(timings))

\* That sum, saturating at the largest u64.
PostAggregate(timings) ==
    IF UnitsPerProgram(timings) > U64_MAX THEN U64_MAX ELSE UnitsPerProgram(timings)

\* The charge of worker w: the units accumulate is called with are the
\* post-execution aggregate of the request's timings.
ChargeStep(w) ==
    (pc[w] = "costcap" /\ pc'[w] # "costcap" /\ features.gate_large_block) =>
       /\ Len(meterLog') = Len(meterLog) + 1
       /\ meterLog'[Len(meterLog')].units = PostAggregate(cur[w].timing)
       /\ meterLog'[Len(meterLog')].units >= 0

\* C24: a pool worker's request starts from fresh timings; the aggregate
\* taken before the execution is 0, the subtraction of line 220 is never
\* negative, and the units charged to the meter are the post-execution
\* aggregate.
C24_ExecutionUnitDelta ==
    /\ [](\A w \in Workers :
             /\ pc[w] = "execute" => cur[w].timing = <<>>
             /\ cur[w].pre_process_units = 0
             /\ pc[w] = "costcap" =>
                   /\ ExecutionCostUnits(cur[w].timing, cur[w].pre_process_units) >= 0
                   /\ ExecutionCostUnits(cur[w].timing, cur[w].pre_process_units)
                         = PostAggregate(cur[w].timing))
    /\ [][\A w \in Workers : ChargeStep(w)]_vars

\* C24 witness: a worker has charged 30 units for a request whose one
\* program ran twice for 60 units, and has 20 of the meter's 50 left.
C24_Witness ==
    \E w \in Workers :
       /\ pc[w] = "votes"
       /\ cur[w].timing = <<[count |-> 2, accumulated_units |-> 60]>>
       /\ cur[w].pre_process_units = 0
       /\ meterLog # <<>>
       /\ meterLog[Len(meterLog)].units = 30
       /\ cur[w].remaining = 20

\* A worker has charged a request whose two programs used 200 units each:
\* the aggregate saturated at the largest u64.
SaturatedCharge ==
    \E w \in Workers :
       /\ pc[w] = "callback"
       /\ UnitsPerProgram(cur[w].timing) = 400
       /\ meterLog # <<>>
       /\ meterLog[Len(meterLog)].units = U64_MAX

====
